---- MODULE Spec2Model ----
(***************************************************************************)
(* Batch evaluation orchestrator of acmecli (src/acmecli/main.py): reading *)
(* and classifying the identifiers, dispatching process_model on a thread  *)
(* pool, collecting with as_completed, fail-fast cancellation, the         *)
(* sequential fallback, the final report and the exit status.              *)
(*                                                                         *)
(* Environment taken as working: writes to stdout, stderr and the error    *)
(* file succeed.  The thread pool may fail to start a thread in submit,    *)
(* which is what sends main() to its sequential fallback.                  *)
(***************************************************************************)
EXTENDS Naturals, Integers, Sequences, FiniteSets, TLC

MaxUrls == 3

PoolSize == 2

(***************************************************************************)
(* Identifiers.  A URL is the sequence of its "/"-separated parts, as      *)
(* url.split("/") gives them.                                              *)
(***************************************************************************)
UrlGpt2 == <<"https:", "", "huggingface.co", "gpt2">>

UrlBert == <<"https:", "", "huggingface.co", "org", "bert">>

\* a dataset URL with the host in mixed case: classify lower-cases first
UrlDataset == <<"https:", "", "HuggingFace.co", "datasets", "squad">>

UrlCode == <<"https:", "", "github.com", "user", "repo">>

\* What the upstream metadata source answers to GET /api/models/<id>:
\* net = the request went through, status = HTTP status, dict = JSON object.
Resp200 == [net |-> TRUE, status |-> 200, dict |-> TRUE]

Resp404 == [net |-> TRUE, status |-> 404, dict |-> TRUE]

RespNetErr == [net |-> FALSE, status |-> 0, dict |-> FALSE]

\* The identifiers a URL file is drawn from, each with its upstream answer.
Entries ==
  { [url |-> UrlGpt2, resp |-> Resp200],
    [url |-> UrlBert, resp |-> Resp404],
    [url |-> UrlGpt2, resp |-> RespNetErr],
    [url |-> UrlDataset, resp |-> Resp200],
    [url |-> UrlCode, resp |-> Resp200] }

RECURSIVE SeqsUpTo(_, _)
SeqsUpTo(S, n) ==
  IF n = 0 THEN { <<>> }
  ELSE LET shorter == SeqsUpTo(S, n - 1)
       IN shorter \cup { Append(s, e) : s \in { t \in shorter : Len(t) = n - 1 }, e \in S }

(***************************************************************************)
(* Pure helpers                                                            *)
(***************************************************************************)
\* str.lower() on one part of a URL
Lower(tok) == IF tok = "HuggingFace.co" THEN "huggingface.co" ELSE tok

LowerUrl(url) == [i \in 1..Len(url) |-> Lower(url[i])]

\* "a/b" in url, on parts: a directly followed by b
HasPair(url, a, b) == \E i \in 1..(Len(url) - 1) : url[i] = a /\ url[i + 1] = b

\* "a" in url
HasPart(url, a) == \E i \in 1..Len(url) : url[i] = a

\* "a/" in url: part a followed by a separator
HasPartSlash(url, a) == \E i \in 1..(Len(url) - 1) : url[i] = a

classify(url) ==
  LET u == LowerUrl(url)
  IN IF HasPair(u, "huggingface.co", "datasets") THEN "DATASET"
     ELSE IF HasPart(u, "huggingface.co") THEN "MODEL"
     ELSE "CODE"

\* url.rstrip("/"): drop the empty parts at the end
RECURSIVE RStrip(_)
RStrip(url) ==
  IF Len(url) > 0 /\ url[Len(url)] = "" THEN RStrip(SubSeq(url, 1, Len(url) - 1)) ELSE url

\* clean_url.split("/tree/")[0]
CutTree(url) ==
  IF \E i \in 2..(Len(url) - 1) : url[i] = "tree"
  THEN LET i == CHOOSE i \in 2..(Len(url) - 1) :
                  url[i] = "tree" /\ \A j \in 2..(i - 1) : url[j] # "tree"
       IN SubSeq(url, 1, i - 1)
  ELSE url

extract_model_id(url) ==
  IF HasPartSlash(url, "huggingface.co")
  THEN LET parts == CutTree(RStrip(url))
       IN IF Len(parts) >= 4
          THEN [ok |-> TRUE, id |-> SubSeq(parts, 4, Len(parts))]
          ELSE [ok |-> FALSE, id |-> <<>>]
  ELSE [ok |-> FALSE, id |-> <<>>]

extract_model_name(url) ==
  IF HasPartSlash(url, "huggingface.co")
  THEN LET parts == CutTree(RStrip(url)) IN <<parts[Len(parts)]>>
  ELSE url

\* fetch_model_info: "ok", or the class of the exception it raises
fetch_model_info(resp) ==
  IF ~resp.net THEN "RuntimeError"
  ELSE IF resp.status # 200 THEN "ModelLookupError"
  ELSE IF ~resp.dict THEN "ModelLookupError"
  ELSE "ok"

build_context_from_api(e) ==
  IF ~extract_model_id(e.url).ok THEN "ValueError" ELSE fetch_model_info(e.resp)

\* The keys of the dict compute_all_scores returns
ScoreFields ==
  { "net_score", "net_score_latency", "ramp_up_time", "ramp_up_time_latency",
    "bus_factor", "bus_factor_latency", "performance_claims",
    "performance_claims_latency", "license", "license_latency", "size_score",
    "size_score_latency", "dataset_and_code_score",
    "dataset_and_code_score_latency", "dataset_quality",
    "dataset_quality_latency", "code_quality", "code_quality_latency" }

\* Fault variant of process_model: the exception is swallowed and the partly
\* built record returned
process_model_swallow(e) ==
  LET ctx == build_context_from_api(e)
  IN [raised |-> "none",
      rec |-> [name |-> extract_model_name(e.url), category |-> "MODEL",
               fields |-> IF ctx = "ok" THEN ScoreFields ELSE {}]]

\* process_model: the record it returns, or the exception it raises
process_model(e) ==
  LET ctx == build_context_from_api(e)
  IN IF ctx = "ok"
     THEN [raised |-> "none",
           rec |-> [name |-> extract_model_name(e.url), category |-> "MODEL",
                    fields |-> ScoreFields]]
     ELSE [raised |-> ctx,
           rec |-> [name |-> <<>>, category |-> "", fields |-> {}]]

\* isinstance(exc, cls) for the exception classes involved
IsInstance(exc, cls) ==
  \/ exc = cls
  \/ exc = "ModelLookupError" /\ cls = "RuntimeError"
  \/ exc \in {"ModelLookupError", "RuntimeError", "ValueError"} /\ cls = "Exception"

\* Fault variant of HandlerFor: the generic except clause comes first
HandlerFor_generic_first(exc) ==
  IF IsInstance(exc, "Exception") THEN "processing"
  ELSE IF IsInstance(exc, "ModelLookupError") THEN "lookup"
  ELSE "uncaught"

\* The except clauses around process_model, first match wins
HandlerFor(exc) ==
  IF IsInstance(exc, "ModelLookupError") THEN "lookup"
  ELSE IF IsInstance(exc, "Exception") THEN "processing"
  ELSE "uncaught"

FailureWhy(exc) ==
  [msg |-> IF HandlerFor(exc) = "lookup" THEN "model lookup failed" ELSE "processing error",
   detail |-> exc]

\* classify and process_model tabulated over the identifiers a file can hold
CategoryOf == [e \in Entries |-> classify(e.url)]

ProcessResult == [e \in Entries |-> process_model(e)]

RaisedBy == [e \in Entries |-> ProcessResult[e].raised]

VARIABLES
  args,        \* parsed command line: url_file, summary, fail_fast, error_file
  urls,        \* what read_urls yields: a sequence of Entries
  pc,          \* where main() is
  models,      \* positions (in urls) classified MODEL, in input order
  invalid,     \* <<position, why>> of the others
  fut,         \* state of each submitted future, by index in models
  nthreads,    \* threads the pool has started
  acInit,      \* as_completed: finished at its start and not yet yielded
  waiterQ,     \* as_completed: finished since, in completion order
  nYielded,    \* futures as_completed has yielded
  fallback,    \* an exception is leaving the with block
  seqIdx,      \* sequential fallback: next index in models
  results,     \* records kept for the summary
  failures,    \* (url, reason) of recorded model failures
  stdout,      \* the result stream
  stderr,      \* the diagnostic channel
  errFile,     \* lines of the error file
  calls,       \* history: times process_model began, by position
  failedYet,   \* history: some process_model call has raised
  doneAtBreak, \* history: futures finished with a record when fail-fast broke
  orderKept,   \* whether the histories doneSeq and acStart are kept in this run
  doneSeq,     \* history, kept while the pool is in use: the futures in the
               \* order their workers finished
  acStart,     \* history, kept while the pool is in use: the futures already
               \* done when as_completed began
  exitCode     \* -1 while running

\* The state of main()
mainVars ==
  << args, urls, pc, models, invalid, fut, nthreads, acInit, waiterQ, nYielded,
     fallback, seqIdx, results, failures, stdout, stderr, errFile, calls,
     failedYet, doneAtBreak, orderKept, doneSeq, acStart, exitCode >>

(***************************************************************************)
(* State of the context builder (src/acmecli/metrics/hf_api.py), used by   *)
(* the specification SpecCtx: the three module-level globals and, for each *)
(* pool thread inside build_context_from_api, its position and locals.     *)
(***************************************************************************)
VARIABLES
  last_net_ms_info,    \* _last_net_ms_info
  last_net_ms_files,   \* _last_net_ms_files
  last_net_ms_readme,  \* _last_net_ms_readme
  wresp,               \* by thread: what upstream answers to its requests
  wpc,                 \* by thread: position in build_context_from_api
  wlat                 \* by thread: lat_api_info, lat_api_files, lat_readme

ctxVars == << last_net_ms_info, last_net_ms_files, last_net_ms_readme, wresp, wpc, wlat >>

\* no thread is inside build_context_from_api
CtxIdle ==
  /\ last_net_ms_info = 0
  /\ last_net_ms_files = 0
  /\ last_net_ms_readme = 0
  /\ wresp = << >>
  /\ wpc = << >>
  /\ wlat = << >>

(***************************************************************************)
(* The state of one call into the metric library (metrics/repo_scan.py,    *)
(* scoring.py): the function called with its arguments, and what the call  *)
(* gave back.                                                              *)
(***************************************************************************)
VARIABLES
  mcall,   \* the call: function name, arguments, elapsed time
  mret     \* its outcome: the exception raised if any, score(s), latency

metVars == << mcall, mret >>

\* no call into the metric library is in progress
MetIdle ==
  /\ mcall = [fn |-> "none"]
  /\ mret = [state |-> "none"]

(***************************************************************************)
(* The documentation enhancer (llm_analysis.py, llm_providers.py) and its  *)
(* callers: the environment it reads, the call, the position inside        *)
(* analyze_readme_with_llm, the requests made to the remote provider, and  *)
(* what the call gave back.                                                *)
(***************************************************************************)
VARIABLES
  lenv,     \* os.environ: LLM_PROVIDER, base URL, API key, DETERMINISTIC, LLM_STRICT
  lcall,    \* the call: entry function, readme text, model id, base score
  lpc,      \* position inside analyze_readme_with_llm
  lremote,  \* the outcomes of the calls of provider.analyze_readme, in order
  lret,     \* what analyze_readme_with_llm gave back: a dict or an exception
  lout,     \* what the entry function gave back
  lrun,     \* the number of the run of the same call
  lprev     \* what the earlier runs gave back

llmVars == << lenv, lcall, lpc, lremote, lret, lout, lrun, lprev >>

\* nothing is inside the documentation enhancer
LlmIdle ==
  /\ lenv = << >>
  /\ lcall = [entry |-> "none"]
  /\ lpc = "idle"
  /\ lremote = << >>
  /\ lret = [state |-> "none"]
  /\ lout = [state |-> "none"]
  /\ lrun = 0
  /\ lprev = << >>

\* the state outside main()
libVars == << ctxVars, metVars, llmVars >>

vars == << mainVars, libVars >>

InitMain ==
  /\ \/ /\ args \in [url_file : {"ok"}, summary : BOOLEAN, fail_fast : BOOLEAN,
                     error_file : BOOLEAN]
        /\ urls \in SeqsUpTo(Entries, MaxUrls)
     \/ /\ args \in [url_file : {"missing", "unreadable"}, summary : {FALSE},
                     fail_fast : {FALSE}, error_file : {FALSE}]
        /\ urls = <<>>
  /\ pc = "start"
  /\ models = <<>>
  /\ invalid = <<>>
  /\ fut = <<>>
  /\ nthreads = 0
  /\ acInit = {}
  /\ waiterQ = <<>>
  /\ nYielded = 0
  /\ fallback = FALSE
  /\ seqIdx = 0
  /\ results = <<>>
  /\ failures = <<>>
  /\ stdout = <<>>
  /\ stderr = <<>>
  /\ errFile = <<>>
  /\ calls = [p \in 1..Len(urls) |-> 0]
  /\ failedYet = FALSE
  /\ doneAtBreak = {}
  /\ doneSeq = <<>>
  /\ acStart = {}
  /\ exitCode = -1
  /\ CtxIdle
  /\ MetIdle
  /\ LlmIdle

Init == InitMain /\ orderKept = FALSE

\* main() is not running
MainIdle ==
  /\ args = [url_file |-> "missing", summary |-> FALSE, fail_fast |-> FALSE,
             error_file |-> FALSE]
  /\ urls = <<>>
  /\ pc = "idle"
  /\ models = <<>>
  /\ invalid = <<>>
  /\ fut = <<>>
  /\ nthreads = 0
  /\ acInit = {}
  /\ waiterQ = <<>>
  /\ nYielded = 0
  /\ fallback = FALSE
  /\ seqIdx = 0
  /\ results = <<>>
  /\ failures = <<>>
  /\ stdout = <<>>
  /\ stderr = <<>>
  /\ errFile = <<>>
  /\ calls = << >>
  /\ failedYet = FALSE
  /\ doneAtBreak = {}
  /\ orderKept = FALSE
  /\ doneSeq = <<>>
  /\ acStart = {}
  /\ exitCode = -1

(***************************************************************************)
(* Helpers over the state                                                  *)
(***************************************************************************)
Positions == [p \in 1..Len(urls) |-> p]

Min(a, b) == IF a < b THEN a ELSE b

Outcome(k) == ProcessResult[urls[models[k]]]

Running == { k \in DOMAIN fut : fut[k] = "running" }

Pending == { k \in DOMAIN fut : fut[k] = "pending" }

\* Fault variant of WriteErrorLine: the line is appended twice
WriteErrorLine_twice(ef, p, why, kind) ==
  IF args.error_file
  THEN ef \o << [url |-> p, error |-> why, kind |-> kind],
                [url |-> p, error |-> why, kind |-> kind] >>
  ELSE ef

\* _write_error_line, when --error-file is given
WriteErrorLine(ef, p, why, kind) ==
  IF args.error_file THEN Append(ef, [url |-> p, error |-> why, kind |-> kind]) ELSE ef

\* f.cancel() on every future: only one no worker has picked up is cancelled
CancelAll(f) == [k \in DOMAIN f |-> IF f[k] = "pending" THEN "cancelled" ELSE f[k]]

\* Fault variant of actual_errors: nothing is filtered out
actual_errors_keep_all(inv) == inv

\* Fault variant of actual_errors: only DATASET is filtered out
actual_errors_dataset_only(inv) ==
  SelectSeq(inv, LAMBDA x :
    ~(x.why.msg = "unsupported category" /\ x.why.detail = "DATASET"))

\* The invalid entries the final report keeps: DATASET and CODE are filtered out
actual_errors(inv) ==
  SelectSeq(inv, LAMBDA x :
    ~(x.why.msg = "unsupported category" /\ x.why.detail \in {"DATASET", "CODE"}))

\* Fault variant of ExitStatus: the model failures are not looked at
ExitStatus_ignore_failures(inv, fails) == IF inv # <<>> THEN 1 ELSE 0

ExitStatus(inv, fails) == IF inv # <<>> \/ fails # <<>> THEN 1 ELSE 0

StderrLine(x) == [kind |-> "item", url |-> x.url, why |-> x.why]

StderrHeader(text) == [kind |-> "header", url |-> 0, why |-> [msg |-> text, detail |-> ""]]

StdoutText(text) == [kind |-> "text", url |-> 0, rec |-> [name |-> <<text>>, category |-> "", fields |-> {}]]

StdoutRecord(p, rec) == [kind |-> "record", url |-> p, rec |-> rec]

\* one "  - url: why" line per entry
StderrLines(s) == [i \in 1..Len(s) |-> StderrLine(s[i])]

\* The final report of the invalid identifiers that were kept
ReportActualErrors(kept) ==
  IF kept # <<>>
  THEN << StderrHeader("invalid/unsupported URL(s) detected") >> \o StderrLines(kept)
  ELSE <<>>

\* Fault variant of ReportFailures: only the first failure is listed
ReportFailures_first_only(fails) ==
  IF fails # <<>>
  THEN << StderrHeader("model failures"), StderrLine(Head(fails)) >>
  ELSE <<>>

\* The final report of the recorded model failures
ReportFailures(fails) ==
  IF fails # <<>>
  THEN << StderrHeader("model failures") >> \o StderrLines(fails)
  ELSE <<>>

(***************************************************************************)
(* main(): usage and configuration errors                                  *)
(***************************************************************************)
Usage ==
  /\ pc = "start"
  /\ args.url_file # "ok" \/ urls = <<>>
  /\ stderr' = Append(stderr, StderrHeader(
                 IF args.url_file = "missing" THEN "missing URL_FILE"
                 ELSE IF args.url_file = "unreadable" THEN "failed to read"
                 ELSE "contained no URLs"))
  /\ exitCode' = 1
  /\ pc' = "exit"
  /\ UNCHANGED << libVars, orderKept, doneSeq, acStart,
                  args, urls, models, invalid, fut, nthreads, acInit, waiterQ,
                  nYielded, fallback, seqIdx, results, failures, stdout, errFile,
                  calls, failedYet, doneAtBreak >>

(***************************************************************************)
(* main(): classify the URLs up-front                                      *)
(***************************************************************************)
\* Fault variant of Classify: every identifier is taken as a MODEL
Classify_all_models ==
  /\ pc = "start"
  /\ args.url_file = "ok" /\ urls # <<>>
  /\ models' = Positions
  /\ invalid' = <<>>
  /\ pc' = "classified"
  /\ UNCHANGED << libVars, orderKept, doneSeq, acStart,
                  args, urls, fut, nthreads, acInit, waiterQ, nYielded, fallback,
                  seqIdx, results, failures, stdout, stderr, errFile, calls,
                  failedYet, doneAtBreak, exitCode >>

Classify ==
  /\ pc = "start"
  /\ args.url_file = "ok" /\ urls # <<>>
  /\ models' = SelectSeq(Positions, LAMBDA p : CategoryOf[urls[p]] = "MODEL")
  /\ invalid' =
       LET others == SelectSeq(Positions, LAMBDA p : CategoryOf[urls[p]] # "MODEL")
       IN [i \in 1..Len(others) |->
             [url |-> others[i],
              why |-> [msg |-> "unsupported category",
                       detail |-> CategoryOf[urls[others[i]]]]]]
  /\ pc' = "classified"
  /\ UNCHANGED << libVars, orderKept, doneSeq, acStart,
                  args, urls, fut, nthreads, acInit, waiterQ, nYielded, fallback,
                  seqIdx, results, failures, stdout, stderr, errFile, calls,
                  failedYet, doneAtBreak, exitCode >>

RECURSIVE WriteClassifyErrors(_, _)
WriteClassifyErrors(ef, inv) ==
  IF inv = <<>> THEN ef
  ELSE WriteClassifyErrors(WriteErrorLine(ef, Head(inv).url, Head(inv).why, "classify"),
                           Tail(inv))

\* Fault variant of ReportInvalid: no early exit when there is no model
ReportInvalid_no_exit ==
  /\ pc = "classified"
  /\ errFile' = WriteClassifyErrors(errFile, invalid)
  /\ pc' = "submit"
  /\ fut' = [k \in 1..Len(models) |-> "new"]
  /\ UNCHANGED << libVars, orderKept, doneSeq, acStart,
                  args, urls, models, invalid, nthreads, acInit, waiterQ, nYielded,
                  fallback, seqIdx, results, failures, stdout, stderr, calls,
                  failedYet, doneAtBreak, exitCode >>

\* classification errors to the error file; exit 1 when there is no model at all
ReportInvalid ==
  /\ pc = "classified"
  /\ errFile' = WriteClassifyErrors(errFile, invalid)
  /\ IF models = <<>> /\ invalid # <<>>
     THEN /\ stderr' = stderr \o << StderrHeader("no model URLs found to evaluate"),
                                   StderrHeader("invalid/unsupported URL(s) detected") >>
                              \o StderrLines(invalid)
          /\ exitCode' = 1
          /\ pc' = "exit"
          /\ fut' = fut
     ELSE /\ pc' = "submit"
          /\ fut' = [k \in 1..Len(models) |-> "new"]
          /\ UNCHANGED << stderr, exitCode >>
  /\ UNCHANGED << libVars, orderKept, doneSeq, acStart,
                  args, urls, models, invalid, nthreads, acInit, waiterQ, nYielded,
                  fallback, seqIdx, results, failures, stdout, calls, failedYet,
                  doneAtBreak >>

(***************************************************************************)
(* main(): the thread pool.  ex.submit queues the work item and then may   *)
(* start one more thread; the work queue is first-in first-out.            *)
(***************************************************************************)
NextToSubmit == CHOOSE k \in DOMAIN fut : fut[k] = "new" /\ \A j \in 1..(k - 1) : fut[j] # "new"

SubmitOk ==
  /\ pc = "submit"
  /\ \E k \in DOMAIN fut : fut[k] = "new"
  /\ fut' = [fut EXCEPT ![NextToSubmit] = "pending"]
  /\ nthreads' = Min(nthreads + 1, PoolSize)
  /\ UNCHANGED << libVars, orderKept, doneSeq, acStart,
                  args, urls, pc, models, invalid, acInit, waiterQ, nYielded,
                  fallback, seqIdx, results, failures, stdout, stderr, errFile,
                  calls, failedYet, doneAtBreak, exitCode >>

\* submit raises because the new thread cannot be started: the item is queued
\* already, and the exception leaves the with block
SubmitFail ==
  /\ pc = "submit"
  /\ \E k \in DOMAIN fut : fut[k] = "new"
  /\ nthreads < PoolSize
  /\ fut' = [fut EXCEPT ![NextToSubmit] = "pending"]
  /\ fallback' = TRUE
  /\ pc' = "shutdown"
  /\ UNCHANGED << libVars, orderKept, doneSeq, acStart,
                  args, urls, models, invalid, nthreads, acInit, waiterQ, nYielded,
                  seqIdx, results, failures, stdout, stderr, errFile, calls,
                  failedYet, doneAtBreak, exitCode >>

\* A pool thread takes the oldest queued item and begins process_model
WorkerStart(k) ==
  /\ pc \in {"submit", "collect", "shutdown"}
  /\ fut[k] = "pending"
  /\ \A j \in 1..(k - 1) : fut[j] # "pending"
  /\ Cardinality(Running) < nthreads
  /\ fut' = [fut EXCEPT ![k] = "running"]
  /\ calls' = [calls EXCEPT ![models[k]] = @ + 1]
  /\ UNCHANGED << libVars, orderKept, doneSeq, acStart,
                  args, urls, pc, models, invalid, nthreads, acInit, waiterQ,
                  nYielded, fallback, seqIdx, results, failures, stdout, stderr,
                  errFile, failedYet, doneAtBreak, exitCode >>

\* Fault variant of WorkerFinish: the collector is handed the newest finished
\* future first
WorkerFinish_newest_first(k) ==
  /\ fut[k] = "running"
  /\ fut' = [fut EXCEPT ![k] = "finished"]
  /\ waiterQ' = IF pc = "collect" THEN << k >> \o waiterQ ELSE waiterQ
  /\ failedYet' = (failedYet \/ Outcome(k).raised # "none")
  /\ doneSeq' = IF orderKept THEN Append(doneSeq, k) ELSE doneSeq
  /\ UNCHANGED << libVars, orderKept, acStart,
                  args, urls, pc, models, invalid, nthreads, acInit, nYielded,
                  fallback, seqIdx, results, failures, stdout, stderr, errFile,
                  calls, doneAtBreak, exitCode >>

\* process_model returns or raises in the pool thread; the future is done
WorkerFinish(k) ==
  /\ fut[k] = "running"
  /\ fut' = [fut EXCEPT ![k] = "finished"]
  /\ waiterQ' = IF pc = "collect" THEN Append(waiterQ, k) ELSE waiterQ
  /\ failedYet' = (failedYet \/ Outcome(k).raised # "none")
  /\ doneSeq' = IF orderKept THEN Append(doneSeq, k) ELSE doneSeq
  /\ UNCHANGED << libVars, orderKept, acStart,
                  args, urls, pc, models, invalid, nthreads, acInit, nYielded,
                  fallback, seqIdx, results, failures, stdout, stderr, errFile,
                  calls, doneAtBreak, exitCode >>

\* cf.as_completed(future_by_url) begins: the futures already done form a set
AsCompleted ==
  /\ pc = "submit"
  /\ \A k \in DOMAIN fut : fut[k] # "new"
  /\ acInit' = { k \in DOMAIN fut : fut[k] = "finished" }
  /\ acStart' = IF orderKept THEN { k \in DOMAIN fut : fut[k] = "finished" } ELSE acStart
  /\ pc' = "collect"
  /\ UNCHANGED << libVars, orderKept, doneSeq,
                  args, urls, models, invalid, fut, nthreads, waiterQ, nYielded,
                  fallback, seqIdx, results, failures, stdout, stderr, errFile,
                  calls, failedYet, doneAtBreak, exitCode >>

\* One turn of the collecting loop: as_completed yields future k (any of those
\* done at its start, then the others in completion order) and the body runs.
\* An exception no except clause matches would leave main(): "crashed".
Collect(k) ==
  /\ pc = "collect"
  /\ \/ k \in acInit
     \/ acInit = {} /\ waiterQ # <<>> /\ k = Head(waiterQ)
  /\ acInit' = acInit \ {k}
  /\ waiterQ' = IF k \in acInit THEN waiterQ ELSE Tail(waiterQ)
  /\ nYielded' = nYielded + 1
  /\ LET r == Outcome(k)
         p == models[k]
         more == IF nYielded + 1 = Len(models) THEN "shutdown" ELSE "collect"
     IN IF r.raised = "none"
        THEN /\ stdout' = Append(stdout, StdoutRecord(p, r.rec))
             /\ results' = IF args.summary THEN Append(results, StdoutRecord(p, r.rec))
                           ELSE results
             /\ pc' = more
             /\ UNCHANGED << failures, errFile, fut, doneAtBreak, exitCode >>
        ELSE IF HandlerFor(r.raised) = "uncaught"
        THEN /\ pc' = "crashed"
             /\ exitCode' = 1
             /\ UNCHANGED << stdout, results, failures, errFile, fut, doneAtBreak >>
        ELSE /\ failures' = Append(failures, [url |-> p, why |-> FailureWhy(r.raised)])
             /\ errFile' = WriteErrorLine(errFile, p, FailureWhy(r.raised), HandlerFor(r.raised))
             /\ IF args.fail_fast
                THEN /\ fut' = CancelAll(fut)
                     /\ doneAtBreak' = { j \in DOMAIN fut :
                                           fut[j] = "finished" /\ Outcome(j).raised = "none" }
                     /\ pc' = "shutdown"
                ELSE /\ pc' = more
                     /\ UNCHANGED << fut, doneAtBreak >>
             /\ UNCHANGED << stdout, results, exitCode >>
  /\ UNCHANGED << libVars, orderKept, doneSeq, acStart,
                  args, urls, models, invalid, nthreads, fallback, seqIdx, stderr,
                  calls, failedYet >>

\* Fault variant of Shutdown: the with block is left without joining the pool
\* threads (shutdown(wait=False))
Shutdown_no_wait ==
  /\ pc = "shutdown"
  /\ IF fallback
     THEN /\ stderr' = Append(stderr, StderrHeader("parallel execution unavailable"))
          /\ seqIdx' = 1
          /\ pc' = "sequential"
     ELSE /\ pc' = "final"
          /\ UNCHANGED << stderr, seqIdx >>
  /\ doneSeq' = <<>>
  /\ acStart' = {}
  /\ UNCHANGED << libVars, orderKept,
                  args, urls, models, invalid, fut, nthreads, acInit, waiterQ,
                  nYielded, fallback, results, failures, stdout, errFile, calls,
                  failedYet, doneAtBreak, exitCode >>

\* Leaving the with block: shutdown(wait=True) joins the pool threads, which
\* first drain the queue; then either the fallback or the final report
Shutdown ==
  /\ pc = "shutdown"
  /\ Running = {}
  /\ nthreads = 0 \/ Pending = {}
  /\ IF fallback
     THEN /\ stderr' = Append(stderr, StderrHeader("parallel execution unavailable"))
          /\ seqIdx' = 1
          /\ pc' = "sequential"
     ELSE /\ pc' = "final"
          /\ UNCHANGED << stderr, seqIdx >>
  /\ doneSeq' = <<>>
  /\ acStart' = {}
  /\ UNCHANGED << libVars, orderKept,
                  args, urls, models, invalid, fut, nthreads, acInit, waiterQ,
                  nYielded, fallback, results, failures, stdout, errFile, calls,
                  failedYet, doneAtBreak, exitCode >>

(***************************************************************************)
(* main(): the sequential fallback, one turn of its loop                   *)
(***************************************************************************)
SeqStep ==
  /\ pc = "sequential"
  /\ seqIdx \in 1..Len(models)
  /\ LET r == Outcome(seqIdx)
         p == models[seqIdx]
         more == IF seqIdx = Len(models) THEN "final" ELSE "sequential"
     IN /\ calls' = [calls EXCEPT ![p] = @ + 1]
        /\ failedYet' = (failedYet \/ r.raised # "none")
        /\ IF r.raised = "none"
           THEN /\ stdout' = Append(stdout, StdoutRecord(p, r.rec))
                /\ results' = IF args.summary THEN Append(results, StdoutRecord(p, r.rec))
                              ELSE results
                /\ pc' = more
                /\ UNCHANGED << failures, errFile, exitCode >>
           ELSE IF HandlerFor(r.raised) = "uncaught"
           THEN /\ pc' = "crashed"
                /\ exitCode' = 1
                /\ UNCHANGED << stdout, results, failures, errFile >>
           ELSE /\ failures' = Append(failures, [url |-> p, why |-> FailureWhy(r.raised)])
                /\ errFile' = WriteErrorLine(errFile, p, FailureWhy(r.raised), HandlerFor(r.raised))
                /\ pc' = IF args.fail_fast THEN "final" ELSE more
                /\ UNCHANGED << stdout, results, exitCode >>
  /\ seqIdx' = seqIdx + 1
  /\ UNCHANGED << libVars, orderKept, doneSeq, acStart,
                  args, urls, models, invalid, fut, nthreads, acInit, waiterQ,
                  nYielded, fallback, stderr, doneAtBreak >>

(***************************************************************************)
(* main(): summary, final report and exit status                           *)
(***************************************************************************)
Final ==
  /\ pc = "final"
  /\ stdout' = IF args.summary /\ results # <<>>
               THEN stdout \o << StdoutText("Results saved to"),
                                 StdoutText("Summary report"),
                                 StdoutText("View summary") >>
               ELSE stdout
  /\ LET kept == actual_errors(invalid)
     IN /\ invalid' = kept
        /\ stderr' = stderr \o ReportActualErrors(kept) \o ReportFailures(failures)
        /\ exitCode' = ExitStatus(kept, failures)
  /\ pc' = "exit"
  /\ UNCHANGED << libVars, orderKept, doneSeq, acStart,
                  args, urls, models, fut, nthreads, acInit, waiterQ, nYielded,
                  fallback, seqIdx, results, failures, errFile, calls, failedYet,
                  doneAtBreak >>

Next ==
  \/ Usage
  \/ Classify
  \/ ReportInvalid
  \/ SubmitOk
  \/ SubmitFail
  \/ \E k \in DOMAIN fut : WorkerStart(k)
  \/ \E k \in DOMAIN fut : WorkerFinish(k)
  \/ AsCompleted
  \/ \E k \in DOMAIN fut : Collect(k)
  \/ Shutdown
  \/ SeqStep
  \/ Final

Spec == Init /\ [][Next]_vars

\* The same program with the completion order of the futures recorded, on
\* runs without --summary and --error-file
InitStream == InitMain /\ orderKept = TRUE /\ ~args.summary /\ ~args.error_file

SpecStream == InitStream /\ [][Next]_vars

(***************************************************************************)
(* main() when a write to the error file can fail.  _write_error_line      *)
(* opens the file for each line, so each write can raise OSError on its    *)
(* own.  Before the pool the exception leaves main(); in the collecting    *)
(* loop it is raised inside an except clause, leaves the with block and is *)
(* caught by the outer `except Exception`, which runs the sequential loop  *)
(* over every model; in the sequential loop it leaves main().              *)
(***************************************************************************)
\* a classification line cannot be written: the OSError leaves main()
ReportInvalidWriteFails ==
  /\ pc = "classified"
  /\ args.error_file /\ invalid # <<>>
  /\ \E n \in 0..(Len(invalid) - 1) :
       errFile' = WriteClassifyErrors(errFile, SubSeq(invalid, 1, n))
  /\ pc' = "crashed"
  /\ exitCode' = 1
  /\ UNCHANGED << libVars, orderKept, doneSeq, acStart,
                  args, urls, models, invalid, fut, nthreads, acInit, waiterQ,
                  nYielded, fallback, seqIdx, results, failures, stdout, stderr,
                  calls, failedYet, doneAtBreak >>

\* One turn of the collecting loop in which record_failure appends the failure
\* and its write to the error file raises
CollectWriteFails(k) ==
  /\ pc = "collect"
  /\ \/ k \in acInit
     \/ acInit = {} /\ waiterQ # <<>> /\ k = Head(waiterQ)
  /\ args.error_file
  /\ Outcome(k).raised # "none" /\ HandlerFor(Outcome(k).raised) # "uncaught"
  /\ acInit' = acInit \ {k}
  /\ waiterQ' = IF k \in acInit THEN waiterQ ELSE Tail(waiterQ)
  /\ nYielded' = nYielded + 1
  /\ failures' = Append(failures, [url |-> models[k], why |-> FailureWhy(Outcome(k).raised)])
  /\ fallback' = TRUE
  /\ pc' = "shutdown"
  /\ UNCHANGED << libVars, orderKept, doneSeq, acStart,
                  args, urls, models, invalid, fut, nthreads, seqIdx, results,
                  stdout, stderr, errFile, calls, failedYet, doneAtBreak, exitCode >>

\* One turn of the sequential loop in which record_failure appends the failure
\* and its write to the error file raises: the OSError leaves main()
SeqWriteFails ==
  /\ pc = "sequential"
  /\ seqIdx \in 1..Len(models)
  /\ args.error_file
  /\ Outcome(seqIdx).raised # "none" /\ HandlerFor(Outcome(seqIdx).raised) # "uncaught"
  /\ calls' = [calls EXCEPT ![models[seqIdx]] = @ + 1]
  /\ failedYet' = TRUE
  /\ failures' = Append(failures, [url |-> models[seqIdx],
                                   why |-> FailureWhy(Outcome(seqIdx).raised)])
  /\ seqIdx' = seqIdx + 1
  /\ pc' = "crashed"
  /\ exitCode' = 1
  /\ UNCHANGED << libVars, orderKept, doneSeq, acStart,
                  args, urls, models, invalid, fut, nthreads, acInit, waiterQ,
                  nYielded, fallback, results, stdout, stderr, errFile, doneAtBreak >>

NextIo ==
  \/ Next
  \/ ReportInvalidWriteFails
  \/ \E k \in DOMAIN fut : CollectWriteFails(k)
  \/ SeqWriteFails

SpecIo == Init /\ [][NextIo]_vars

\* The same program under its scheduling: the main thread and the pool threads
\* keep running, and every process_model call a pool thread has begun returns
\* or raises, so a step that is possible is eventually taken.  The runs are
\* those with --error-file and without --summary: --summary only adds to
\* results and stdout, and a run without --error-file takes the steps of a run
\* with it in which every write succeeds.
InitLive == Init /\ (args.url_file = "ok" => args.error_file /\ ~args.summary)

SpecLive == InitLive /\ [][NextIo]_vars /\ WF_vars(NextIo)

(***************************************************************************)
(* The context builder run by several pool threads at once.  Each fetch_*  *)
(* stores the elapsed time of its response in a module-level global, and   *)
(* build_context_from_api reads the global after the call returns; a       *)
(* thread can be switched out between the two.                             *)
(***************************************************************************)
Threads == 1..PoolSize

\* response.elapsed of a thread's requests, in milliseconds (0: under one)
ElapsedMs == {0, 7}

\* What upstream answers to one thread's requests
CtxInputs ==
  [ ms : ElapsedMs,
    info : {"ok", "http_error", "net_error"},
    files : {"ok", "net_error"},
    readme : {"first", "second", "net_error"} ]

elapsed_ms(e) == IF e < 1 THEN 1 ELSE e

\* `x or 1`
OrOne(x) == IF x = 0 THEN 1 ELSE x

CtxInit ==
  /\ MainIdle
  /\ MetIdle
  /\ LlmIdle
  /\ last_net_ms_info = 0
  /\ last_net_ms_files = 0
  /\ last_net_ms_readme = 0
  /\ wresp \in [Threads -> CtxInputs]
  /\ wpc = [w \in Threads |-> "fetch_model_info"]
  /\ wlat = [w \in Threads |-> [info |-> 0, files |-> 0, readme |-> 0]]

\* fetch_model_info: the request, the global, and the return or the raise
FetchModelInfo(w) ==
  /\ wpc[w] = "fetch_model_info"
  /\ last_net_ms_info' =
       IF wresp[w].info = "net_error" THEN 0 ELSE elapsed_ms(wresp[w].ms)
  /\ wpc' = [wpc EXCEPT ![w] = IF wresp[w].info = "ok" THEN "lat_api_info" ELSE "raised"]
  /\ UNCHANGED << mainVars, metVars, llmVars, last_net_ms_files, last_net_ms_readme, wresp, wlat >>

\* lat_api_info = _last_net_ms_info or 1
ReadInfo(w) ==
  /\ wpc[w] = "lat_api_info"
  /\ wlat' = [wlat EXCEPT ![w].info = OrOne(last_net_ms_info)]
  /\ wpc' = [wpc EXCEPT ![w] = "fetch_model_files"]
  /\ UNCHANGED << mainVars, metVars, llmVars, last_net_ms_info, last_net_ms_files,
                  last_net_ms_readme, wresp >>

\* fetch_model_files: never raises
FetchModelFiles(w) ==
  /\ wpc[w] = "fetch_model_files"
  /\ last_net_ms_files' =
       IF wresp[w].files = "net_error" THEN 0 ELSE elapsed_ms(wresp[w].ms)
  /\ wpc' = [wpc EXCEPT ![w] = "lat_api_files"]
  /\ UNCHANGED << mainVars, metVars, llmVars, last_net_ms_info, last_net_ms_readme, wresp, wlat >>

\* lat_api_files = _last_net_ms_files or 1
ReadFiles(w) ==
  /\ wpc[w] = "lat_api_files"
  /\ wlat' = [wlat EXCEPT ![w].files = OrOne(last_net_ms_files)]
  /\ wpc' = [wpc EXCEPT ![w] = "fetch_readme_content"]
  /\ UNCHANGED << mainVars, metVars, llmVars, last_net_ms_info, last_net_ms_files,
                  last_net_ms_readme, wresp >>

\* fetch_readme_content, the request for README.md
FetchReadme(w) ==
  /\ wpc[w] = "fetch_readme_content"
  /\ last_net_ms_readme' =
       IF wresp[w].readme = "net_error" THEN 0 ELSE elapsed_ms(wresp[w].ms)
  /\ wpc' = [wpc EXCEPT ![w] = IF wresp[w].readme = "second" THEN "fetch_readme_second"
                                ELSE "lat_readme"]
  /\ UNCHANGED << mainVars, metVars, llmVars, last_net_ms_info, last_net_ms_files, wresp, wlat >>

\* fetch_readme_content, the request for README after README.md was not found
FetchReadmeSecond(w) ==
  /\ wpc[w] = "fetch_readme_second"
  /\ last_net_ms_readme' = elapsed_ms(wresp[w].ms)
  /\ wpc' = [wpc EXCEPT ![w] = "lat_readme"]
  /\ UNCHANGED << mainVars, metVars, llmVars, last_net_ms_info, last_net_ms_files, wresp, wlat >>

\* lat_readme = _last_net_ms_readme or 1; the context is then built
ReadReadme(w) ==
  /\ wpc[w] = "lat_readme"
  /\ wlat' = [wlat EXCEPT ![w].readme = OrOne(last_net_ms_readme)]
  /\ wpc' = [wpc EXCEPT ![w] = "done"]
  /\ UNCHANGED << mainVars, metVars, llmVars, last_net_ms_info, last_net_ms_files,
                  last_net_ms_readme, wresp >>

CtxNext ==
  \/ \E w \in Threads : FetchModelInfo(w)
  \/ \E w \in Threads : ReadInfo(w)
  \/ \E w \in Threads : FetchModelFiles(w)
  \/ \E w \in Threads : ReadFiles(w)
  \/ \E w \in Threads : FetchReadme(w)
  \/ \E w \in Threads : FetchReadmeSecond(w)
  \/ \E w \in Threads : ReadReadme(w)

SpecCtx == CtxInit /\ [][CtxNext]_vars

(***************************************************************************)
(* The metric library (metrics/repo_scan.py) and the aggregation           *)
(* (scoring.py).                                                           *)
(*                                                                         *)
(* Scores are held in thousandths (One is the score 1.0), weights in       *)
(* hundredths, latencies in milliseconds, sizes in megabytes.  A Python    *)
(* value is a record of its type t, its number n (an int as it is, a       *)
(* float in thousandths, a bool as 0 or 1) and its characters s (of a      *)
(* str).  The arguments drawn below are exact at this resolution, except   *)
(* for the quotient of size_score, which is rounded down; NaN, infinities  *)
(* and strings spelling a number with a sign, a point or blanks are not    *)
(* drawn.                                                                  *)
(***************************************************************************)
One == 1000

PyInt(n) == [t |-> "int", n |-> n, s |-> <<>>]
PyFloat(m) == [t |-> "float", n |-> m, s |-> <<>>]
PyBool(b) == [t |-> "bool", n |-> IF b THEN 1 ELSE 0, s |-> <<>>]
PyStr(cs) == [t |-> "str", n |-> 0, s |-> cs]
PyNone == [t |-> "NoneType", n |-> 0, s |-> <<>>]
\* a key the dict does not have
Missing == [t |-> "missing", n |-> 0, s |-> <<>>]

\* dict.get(key, default)
Get(v, default) == IF v.t = "missing" THEN default ELSE v

IsNumber(v) == v.t \in {"int", "float", "bool"}

\* the value of a number, in thousandths
Milli(v) == IF v.t = "float" THEN v.n ELSE v.n * One

\* `not v`
Falsy(v) ==
  \/ v.t = "NoneType"
  \/ IsNumber(v) /\ v.n = 0
  \/ v.t = "str" /\ v.s = <<>>

Digits == <<"0", "1", "2", "3", "4", "5", "6", "7", "8", "9">>

\* the number a str of decimal digits spells
RECURSIVE DecimalVal(_)
DecimalVal(cs) ==
  IF cs = <<>> THEN 0
  ELSE 10 * DecimalVal(SubSeq(cs, 1, Len(cs) - 1))
       + (CHOOSE i \in 1..10 : Digits[i] = cs[Len(cs)]) - 1

\* a str of decimal digits
IsDecimal(cs) == cs # <<>> /\ \A i \in 1..Len(cs) : \E j \in 1..10 : Digits[j] = cs[i]

\* int(v): the number, or the exception raised
to_int(v) ==
  IF v.t \in {"int", "bool"} THEN [ok |-> TRUE, n |-> v.n, exc |-> ""]
  ELSE IF v.t = "float"
  THEN [ok |-> TRUE, exc |-> "",
        n |-> IF v.n >= 0 THEN v.n \div One ELSE -((-v.n) \div One)]
  ELSE IF v.t = "str"
  THEN IF IsDecimal(v.s) THEN [ok |-> TRUE, n |-> DecimalVal(v.s), exc |-> ""]
       ELSE [ok |-> FALSE, n |-> 0, exc |-> "ValueError"]
  ELSE [ok |-> FALSE, n |-> 0, exc |-> "TypeError"]

\* float(v), in thousandths, or the exception raised
to_float(v) ==
  IF IsNumber(v) THEN [ok |-> TRUE, n |-> Milli(v), exc |-> ""]
  ELSE IF v.t = "str"
  THEN IF IsDecimal(v.s) THEN [ok |-> TRUE, n |-> DecimalVal(v.s) * One, exc |-> ""]
       ELSE [ok |-> FALSE, n |-> 0, exc |-> "ValueError"]
  ELSE [ok |-> FALSE, n |-> 0, exc |-> "TypeError"]

\* str.lower()
lower(cs) ==
  LET UpperCase ==
        <<"A", "B", "C", "D", "E", "F", "G", "H", "I", "J", "K", "L", "M",
          "N", "O", "P", "Q", "R", "S", "T", "U", "V", "W", "X", "Y", "Z">>
      LowerCase ==
        <<"a", "b", "c", "d", "e", "f", "g", "h", "i", "j", "k", "l", "m",
          "n", "o", "p", "q", "r", "s", "t", "u", "v", "w", "x", "y", "z">>
  IN [i \in 1..Len(cs) |->
        IF \E j \in 1..26 : UpperCase[j] = cs[i]
        THEN LowerCase[CHOOSE j \in 1..26 : UpperCase[j] = cs[i]]
        ELSE cs[i]]

\* `sub in text`
Contains(text, sub) ==
  \E i \in 1..(Len(text) - Len(sub) + 1) : SubSeq(text, i, i + Len(sub) - 1) = sub

\* what a call gives back: a (score, latency) pair, or an exception
Returned(score, lat) == [state |-> "returned", score |-> score, latency |-> lat]

Raised(exc) == [state |-> "raised", raised |-> exc]

\* _latency(start), ms being the time elapsed since start
latency(ms) == IF ms < 1 THEN 1 ELSE ms

\* Fault variant of clamp: the value is passed through
clamp_passthrough(x) == x

\* _clamp(x), and clamp01(x) of scoring.py
clamp(x) == IF x > One THEN One ELSE IF x < 0 THEN 0 ELSE x

\* 400_000_000.0, in megabytes
SizeMid == 400

size_score(total_bytes, ms) ==
  IF total_bytes.t = "NoneType" THEN Returned(One, latency(ms))
  ELSE IF ~IsNumber(total_bytes) THEN Raised("TypeError")
  ELSE IF total_bytes.n <= 0 THEN Returned(One, latency(ms))
  ELSE Returned(clamp((One * SizeMid * One) \div (SizeMid * One + Milli(total_bytes))),
                latency(ms))

license_score(license_text, ms) ==
  IF Falsy(license_text) THEN Returned(One \div 2, latency(ms))
  ELSE IF license_text.t # "str" THEN Raised("AttributeError")
  ELSE LET text == lower(license_text.s)
       IN IF Contains(text, <<"a", "p", "a", "c", "h", "e">>)
          THEN Returned(One, latency(ms))
          ELSE IF Contains(text, <<"m", "i", "t">>) THEN Returned(One, latency(ms))
          ELSE IF Contains(text, <<"l", "g", "p", "l">>) THEN Returned(One, latency(ms))
          ELSE IF Contains(text, <<"g", "p", "l">>) THEN Returned(0, latency(ms))
          ELSE Returned(One \div 2, latency(ms))

\* Fault variant of bus_factor_score: ten or more contributors score 0.5
bus_factor_score_dip(contributors, ms) ==
  LET c == to_int(contributors)
  IN IF contributors.t = "NoneType" \/ ~c.ok \/ c.n <= 0 THEN Returned(0, latency(ms))
     ELSE IF c.n = 1 THEN Returned(One \div 5, latency(ms))
     ELSE IF c.n >= 10 THEN Returned(One \div 2, latency(ms))
     ELSE Returned(clamp((c.n * One) \div 10), latency(ms))

bus_factor_score(contributors, ms) ==
  IF contributors.t = "NoneType" THEN Returned(0, latency(ms))
  ELSE LET c == to_int(contributors)
       IN IF ~c.ok THEN Returned(0, latency(ms))
          ELSE IF c.n <= 0 THEN Returned(0, latency(ms))
          ELSE IF c.n = 1 THEN Returned(One \div 5, latency(ms))
          ELSE IF c.n >= 10 THEN Returned(One, latency(ms))
          ELSE Returned(clamp((c.n * One) \div 10), latency(ms))

\* total += float(v), with bad values counted as 0
RECURSIVE FloatTotal(_)
FloatTotal(vals) ==
  IF vals = <<>> THEN 0
  ELSE LET f == to_float(vals[1])
       IN (IF f.ok THEN f.n ELSE 0) + FloatTotal(Tail(vals))

rampup_score(readme, quickstart, tutorials, api_docs, reproducibility, ms) ==
  LET vals == <<readme, quickstart, tutorials, api_docs, reproducibility>>
  IN Returned(clamp(FloatTotal(vals) \div 5), latency(ms))

dataset_and_code_score(dataset_present, code_present, ms) ==
  LET score == (IF ~Falsy(dataset_present) THEN One \div 2 ELSE 0)
               + (IF ~Falsy(code_present) THEN One \div 2 ELSE 0)
  IN Returned(clamp(score), latency(ms))

dataset_quality_score(source, license, splits, ethics, ms) ==
  LET vals == <<source, license, splits, ethics>>
  IN Returned(clamp(FloatTotal(vals) \div 4), latency(ms))

\* int(v), with 0 for a value int() rejects
IntOrZero(v) == LET i == to_int(v) IN IF i.ok THEN i.n ELSE 0

code_quality_score(flake8_errors, isort_sorted, mypy_errors, ms) ==
  LET score == One
               - (IF IntOrZero(flake8_errors) > 0 THEN (3 * One) \div 10 ELSE 0)
               - (IF Falsy(isort_sorted) THEN (2 * One) \div 10 ELSE 0)
               - (IF IntOrZero(mypy_errors) > 0 THEN (3 * One) \div 10 ELSE 0)
  IN Returned(clamp(score), latency(ms))

perf_claims_score(benchmarks_present, citations_present, ms) ==
  LET b == ~Falsy(benchmarks_present)
      c == ~Falsy(citations_present)
  IN IF ~b /\ ~c THEN Returned(0, latency(ms))
     ELSE IF b /\ c THEN Returned(One, latency(ms))
     ELSE Returned(One \div 2, latency(ms))

\* the keys of `scores` and of DEFAULT_WEIGHTS, in the order of the dict
MetricKeys ==
  <<"size", "license", "ramp_up_time", "bus_factor", "dataset_and_code",
    "dataset_quality", "code_quality", "performance_claims">>

\* Fault variant of DEFAULT_WEIGHTS: the weight of size is 0.50
DEFAULT_WEIGHTS_heavy_size ==
  [size |-> 50, license |-> 20, ramp_up_time |-> 15, bus_factor |-> 10,
   dataset_and_code |-> 20, dataset_quality |-> 5, code_quality |-> 15,
   performance_claims |-> 10]

\* in hundredths
DEFAULT_WEIGHTS ==
  [size |-> 5, license |-> 20, ramp_up_time |-> 15, bus_factor |-> 10,
   dataset_and_code |-> 20, dataset_quality |-> 5, code_quality |-> 15,
   performance_claims |-> 10]

\* the keys of latencies_default, in the order of the dict
LatencyKeys ==
  <<"size_score_latency", "license_latency", "ramp_up_time_latency",
    "bus_factor_latency", "dataset_and_code_score_latency",
    "dataset_quality_latency", "code_quality_latency",
    "performance_claims_latency">>

DocKeys == {"readme", "quickstart", "tutorials", "api_docs", "reproducibility"}

DatasetDocKeys == {"source", "license", "splits", "ethics"}

PerfKeys == {"benchmarks", "citations"}

\* A value in the place of a nested dict: its type t and, for a dict, its
\* entries v (Missing under the keys it does not have)
PyDict(v) == [t |-> "dict", v |-> v]

NotADict(t, keys) == [t |-> t, v |-> [k \in keys |-> Missing]]

\* ctx.get(key, {})
GetDict(d, keys) == IF d.t = "missing" THEN PyDict([k \in keys |-> Missing]) ELSE d

\* the largest number of a sequence
RECURSIVE MaxOf(_)
MaxOf(ns) ==
  IF Len(ns) = 1 THEN ns[1]
  ELSE LET m == MaxOf(Tail(ns)) IN IF ns[1] > m THEN ns[1] ELSE m

\* sum(scores[k] * DEFAULT_WEIGHTS[k] for k in DEFAULT_WEIGHTS), in 1/100000
RECURSIVE WeightedSum(_, _)
WeightedSum(scores, keys) ==
  IF keys = <<>> THEN 0
  ELSE scores[keys[1]] * DEFAULT_WEIGHTS[keys[1]] + WeightedSum(scores, Tail(keys))

\* _device_size_scores(total_bytes): the score of each device, in thousandths
\* rounded down, or the exception of float(total_bytes).  S is
\* max(0.0, float(total_bytes)) in megabytes; the curve
\* clamp01(1/(1+(S/C)^a)) with (C, a) = (180 MB, 1.4), (350 MB, 1.4),
\* (2000 MB, 1.8), (4000 MB, 1.8) is given by its values at the sizes drawn
device_size_scores(total_bytes) ==
  LET S == to_float(total_bytes)
      mb == IF S.n < 0 THEN 0 ELSE S.n \div One
      curve == CASE mb = 0 -> <<1000, 1000, 1000, 1000>>
                 [] mb = 50 -> <<857, 938, 998, 999>>
                 [] mb = 400 -> <<246, 453, 947, 984>>
      out == [device \in {"raspberry_pi", "jetson_nano", "desktop_pc", "aws_server"} |->
                clamp(CASE device = "raspberry_pi" -> curve[1]
                        [] device = "jetson_nano" -> curve[2]
                        [] device = "desktop_pc" -> curve[3]
                        [] device = "aws_server" -> curve[4])]
  IN IF S.ok THEN [state |-> "returned", devices |-> out] ELSE Raised(S.exc)

\* Fault variant of merged_latency: the local timing is always taken
merged_latency_local(latencies_ctx, k, default) == to_int(PyInt(default))

\* int(latencies_ctx.get(k, latencies_default[k])): the value the context
\* supplies under k, else the local timing, as an int or the exception raised
merged_latency(latencies_ctx, k, default) == to_int(Get(latencies_ctx.v[k], PyInt(default)))

\* compute_all_scores(ctx): ms is the time every metric function measures,
\* elapsed the time of the whole call.  net_score is in 1/100000.
compute_all_scores(ctx, ms, elapsed) ==
  LET tb == Get(ctx.total_bytes, PyInt(0))
      size == size_score(tb, ms)
      lic == license_score(Get(ctx.license_text, PyStr(<<>>)), ms)
      d == GetDict(ctx.docs, DocKeys)
      ramp == rampup_score(Get(d.v["readme"], PyInt(0)),
                           Get(d.v["quickstart"], PyInt(0)),
                           Get(d.v["tutorials"], PyInt(0)),
                           Get(d.v["api_docs"], PyInt(0)),
                           Get(d.v["reproducibility"], PyInt(0)), ms)
      bus == bus_factor_score(Get(ctx.contributors, PyInt(0)), ms)
      dac == dataset_and_code_score(Get(ctx.dataset_present, PyBool(FALSE)),
                                    Get(ctx.code_present, PyBool(FALSE)), ms)
      dd == GetDict(ctx.dataset_doc, DatasetDocKeys)
      dq == dataset_quality_score(Get(dd.v["source"], PyInt(0)),
                                  Get(dd.v["license"], PyInt(0)),
                                  Get(dd.v["splits"], PyInt(0)),
                                  Get(dd.v["ethics"], PyInt(0)), ms)
      cq == code_quality_score(Get(ctx.flake8_errors, PyInt(0)),
                               Get(ctx.isort_sorted, PyBool(TRUE)),
                               Get(ctx.mypy_errors, PyInt(0)), ms)
      p == GetDict(ctx.perf, PerfKeys)
      perfc == perf_claims_score(Get(p.v["benchmarks"], PyBool(FALSE)),
                                 Get(p.v["citations"], PyBool(FALSE)), ms)
      scores == [size |-> clamp(size.score), license |-> clamp(lic.score),
                 ramp_up_time |-> clamp(ramp.score), bus_factor |-> clamp(bus.score),
                 dataset_and_code |-> clamp(dac.score),
                 dataset_quality |-> clamp(dq.score),
                 code_quality |-> clamp(cq.score),
                 performance_claims |-> clamp(perfc.score)]
      \* ctx.get("latencies", {}) or {}
      latencies_ctx == IF ctx.latencies.t = "dict" THEN ctx.latencies
                       ELSE PyDict([k \in {LatencyKeys[i] : i \in 1..8} |-> Missing])
      latencies_default ==
        <<size.latency, lic.latency, ramp.latency, bus.latency, dac.latency,
          dq.latency, cq.latency, perfc.latency>>
      asInt == [i \in 1..8 |->
                  merged_latency(latencies_ctx, LatencyKeys[i], latencies_default[i])]
      latencies == [i \in 1..8 |-> IF asInt[i].n < 1 THEN 1 ELSE asInt[i].n]
      size_obj == device_size_scores(tb)
      net == WeightedSum(scores, MetricKeys)
      net_latency == MaxOf(latencies) + (IF elapsed < 1 THEN 1 ELSE elapsed)
  IN IF size.state = "raised" THEN size
     ELSE IF lic.state = "raised" THEN lic
     ELSE IF d.t # "dict" THEN Raised("AttributeError")
     ELSE IF dd.t # "dict" THEN Raised("AttributeError")
     ELSE IF p.t # "dict" THEN Raised("AttributeError")
     ELSE IF \E i \in 1..8 : ~asInt[i].ok
     THEN Raised(asInt[CHOOSE i \in 1..8 : ~asInt[i].ok /\ \A j \in 1..(i - 1) : asInt[j].ok].exc)
     ELSE IF size_obj.state = "raised" THEN size_obj
     ELSE [state |-> "returned",
           scores |-> scores,
           net_score |-> IF net > 100 * One THEN 100 * One ELSE IF net < 0 THEN 0 ELSE net,
           net_score_latency |-> net_latency,
           latencies |-> latencies,
           size_score |-> size_obj.devices]

\* The dict compute_all_scores builds from what it computed (r is its return
\* above): the scalar size sub-score enters net_score only, and "size_score"
\* holds the device map
result(r) ==
  [k \in ScoreFields |->
     CASE k = "net_score" -> r.net_score
       [] k = "net_score_latency" -> r.net_score_latency
       [] k = "size_score" -> r.size_score
       [] k = "dataset_and_code_score" -> r.scores["dataset_and_code"]
       [] k \in {"ramp_up_time", "bus_factor", "performance_claims", "license",
                 "dataset_quality", "code_quality"} -> r.scores[k]
       [] OTHER -> r.latencies[CHOOSE i \in 1..8 : LatencyKeys[i] = k]]

\* {"name": model_name, "category": "MODEL", **fields}
ScoreRecord(model_name, fields) ==
  [k \in {"name", "category"} \cup DOMAIN fields |->
     IF k = "name" THEN model_name ELSE IF k = "category" THEN "MODEL" ELSE fields[k]]

(***************************************************************************)
(* One call into the metric library.  The call is drawn at the start: one  *)
(* of the eight metric functions or compute_all_scores, with arguments of  *)
(* the documented types and malformed ones; the action of the function     *)
(* called then computes what the call gives back.                          *)
(***************************************************************************)
\* largest contributor count drawn
MaxContributors == 21

\* largest flake8 / mypy error count drawn
MaxErrors == 2

\* sizes are drawn in steps of 50 MB, up to this many steps
MaxSizeSteps == 10

\* time.perf_counter() differences, in milliseconds
TimeMs == {0, 3}

abc == <<"a", "b", "c">>

LicenseTexts ==
  { <<>>,
    <<"M", "I", "T">>,
    <<"A", "p", "a", "c", "h", "e", "-", "2", ".", "0">>,
    <<"L", "G", "P", "L", "-", "2", ".", "1">>,
    <<"G", "P", "L", "-", "3", ".", "0">>,
    <<"A", "G", "P", "L", "-", "3", ".", "0">>,
    <<"g", "p", "l">>,
    <<"B", "S", "D">>,
    <<"G", "P", "L", " ", "l", "i", "m", "i", "t", "e", "d">> }

SizeArgs ==
  { PyInt(50 * k) : k \in -1..MaxSizeSteps } \cup {PyInt(1), PyNone, PyStr(abc)}

LicenseArgs == { PyStr(t) : t \in LicenseTexts } \cup {PyNone, PyInt(7)}

ContributorArgs ==
  { PyInt(n) : n \in -2..MaxContributors }
    \cup {PyNone, PyStr(abc), PyStr(<<"7">>), PyFloat(3700)}

SignalArgs ==
  {PyFloat(-500), PyFloat(500), PyFloat(1500), PyInt(1), PyNone, PyStr(abc)}

FlagArgs == {PyBool(TRUE), PyBool(FALSE), PyNone, PyStr(abc)}

ErrorCountArgs == { PyInt(n) : n \in -1..MaxErrors } \cup {PyNone, PyStr(abc)}

\* Keyword arguments a caller can add to size_score(total_bytes): none, or
\* a lower bound L and an upper bound U, as pairs of name and value
SizeKeywords ==
  {{}} \cup { {<<"L", l>>, <<"U", u>>} : l, u \in {100, 400} }

\* the call c has arguments of the parameters and types the function declares
WellTyped(c) ==
  CASE c.fn = "size_score" -> c.a[1].t = "int" /\ c.kw = {}
    [] c.fn = "bus_factor_score" -> c.a[1].t = "int"
    [] c.fn = "license_score" -> c.a[1].t = "str"
    [] c.fn \in {"rampup_score", "dataset_quality_score"} ->
         \A i \in 1..Len(c.a) : c.a[i].t \in {"int", "float"}
    [] c.fn \in {"dataset_and_code_score", "perf_claims_score"} ->
         \A i \in 1..Len(c.a) : c.a[i].t = "bool"
    [] c.fn = "code_quality_score" ->
         c.a[1].t = "int" /\ c.a[2].t = "bool" /\ c.a[3].t = "int"

MetricCalls ==
  [fn : {"size_score"}, a : [1..1 -> SizeArgs], kw : SizeKeywords, ms : TimeMs]
    \cup [fn : {"license_score"}, a : [1..1 -> LicenseArgs], ms : TimeMs]
    \cup [fn : {"bus_factor_score"}, a : [1..1 -> ContributorArgs], ms : TimeMs]
    \cup [fn : {"rampup_score"}, a : [1..5 -> SignalArgs], ms : TimeMs]
    \cup [fn : {"dataset_and_code_score"}, a : [1..2 -> FlagArgs], ms : TimeMs]
    \cup [fn : {"dataset_quality_score"}, a : [1..4 -> SignalArgs], ms : TimeMs]
    \cup [fn : {"code_quality_score"},
          a : ErrorCountArgs \X FlagArgs \X ErrorCountArgs, ms : TimeMs]
    \cup [fn : {"perf_claims_score"}, a : [1..2 -> FlagArgs], ms : TimeMs]

\* The contexts drawn: every key absent, present and well typed, or malformed
Contexts ==
  LET DictOf(keys, v) == PyDict([k \in keys |-> v])
      \* {"readme": 0.5}
      ReadmeOnly ==
        PyDict([k \in DocKeys |-> IF k = "readme" THEN PyFloat(500) ELSE Missing])
      \* {"benchmarks": True}
      BenchmarksOnly ==
        PyDict([k \in PerfKeys |-> IF k = "benchmarks" THEN PyBool(TRUE) ELSE Missing])
      LatencySet == {LatencyKeys[i] : i \in 1..8}
      \* {"license_latency": v}
      LicenseLatency(v) ==
        PyDict([k \in LatencySet |-> IF k = "license_latency" THEN v ELSE Missing])
      \* every key supplied: 11 for the first, 12 for the second, and so on
      AllLatencies ==
        PyDict([k \in LatencySet |-> PyInt(10 + CHOOSE i \in 1..8 : LatencyKeys[i] = k)])
  IN [ total_bytes : {Missing, PyInt(0), PyInt(50), PyInt(400), PyNone},
       license_text : {Missing, PyStr(<<"M", "I", "T">>), PyStr(<<"g", "p", "l">>),
                       PyInt(7)},
       docs : {Missing, DictOf(DocKeys, PyFloat(1000)), ReadmeOnly,
               NotADict("NoneType", DocKeys)},
       contributors : {Missing, PyInt(10), PyStr(abc)},
       dataset_present : {Missing, PyBool(TRUE)},
       code_present : {PyBool(TRUE)},
       dataset_doc : {Missing, DictOf(DatasetDocKeys, PyFloat(1000)),
                      NotADict("NoneType", DatasetDocKeys)},
       flake8_errors : {PyInt(0), PyInt(3)},
       isort_sorted : {PyBool(TRUE)},
       mypy_errors : {PyInt(0)},
       perf : {Missing, DictOf(PerfKeys, PyBool(TRUE)), BenchmarksOnly},
       latencies : {Missing, NotADict("NoneType", LatencySet), LicenseLatency(PyInt(40)),
                    LicenseLatency(PyInt(0)), LicenseLatency(PyFloat(2700)), AllLatencies,
                    LicenseLatency(PyStr(abc))} ]

AggregateCalls == [fn : {"compute_all_scores"}, ctx : Contexts, ms : {0}, elapsed : TimeMs]

MetInit ==
  /\ MainIdle
  /\ CtxIdle
  /\ LlmIdle
  /\ mcall \in MetricCalls \cup AggregateCalls
  /\ mret = [state |-> "pending"]

\* One action per function: the call returns or raises.  size_score declares
\* the one parameter total_bytes, so a call with other keywords raises
CallSizeScore ==
  /\ mcall.fn = "size_score"
  /\ mret.state = "pending"
  /\ mret' = IF mcall.kw = {} THEN size_score(mcall.a[1], mcall.ms)
              ELSE Raised("TypeError")
  /\ UNCHANGED << mainVars, ctxVars, llmVars, mcall >>

CallLicenseScore ==
  /\ mcall.fn = "license_score"
  /\ mret.state = "pending"
  /\ mret' = license_score(mcall.a[1], mcall.ms)
  /\ UNCHANGED << mainVars, ctxVars, llmVars, mcall >>

CallBusFactorScore ==
  /\ mcall.fn = "bus_factor_score"
  /\ mret.state = "pending"
  /\ mret' = bus_factor_score(mcall.a[1], mcall.ms)
  /\ UNCHANGED << mainVars, ctxVars, llmVars, mcall >>

CallRampupScore ==
  /\ mcall.fn = "rampup_score"
  /\ mret.state = "pending"
  /\ mret' = rampup_score(mcall.a[1], mcall.a[2], mcall.a[3], mcall.a[4], mcall.a[5],
                          mcall.ms)
  /\ UNCHANGED << mainVars, ctxVars, llmVars, mcall >>

CallDatasetAndCodeScore ==
  /\ mcall.fn = "dataset_and_code_score"
  /\ mret.state = "pending"
  /\ mret' = dataset_and_code_score(mcall.a[1], mcall.a[2], mcall.ms)
  /\ UNCHANGED << mainVars, ctxVars, llmVars, mcall >>

CallDatasetQualityScore ==
  /\ mcall.fn = "dataset_quality_score"
  /\ mret.state = "pending"
  /\ mret' = dataset_quality_score(mcall.a[1], mcall.a[2], mcall.a[3], mcall.a[4],
                                   mcall.ms)
  /\ UNCHANGED << mainVars, ctxVars, llmVars, mcall >>

CallCodeQualityScore ==
  /\ mcall.fn = "code_quality_score"
  /\ mret.state = "pending"
  /\ mret' = code_quality_score(mcall.a[1], mcall.a[2], mcall.a[3], mcall.ms)
  /\ UNCHANGED << mainVars, ctxVars, llmVars, mcall >>

CallPerfClaimsScore ==
  /\ mcall.fn = "perf_claims_score"
  /\ mret.state = "pending"
  /\ mret' = perf_claims_score(mcall.a[1], mcall.a[2], mcall.ms)
  /\ UNCHANGED << mainVars, ctxVars, llmVars, mcall >>

CallComputeAllScores ==
  /\ mcall.fn = "compute_all_scores"
  /\ mret.state = "pending"
  /\ mret' = compute_all_scores(mcall.ctx, mcall.ms, mcall.elapsed)
  /\ UNCHANGED << mainVars, ctxVars, llmVars, mcall >>

MetNext ==
  \/ CallSizeScore
  \/ CallLicenseScore
  \/ CallBusFactorScore
  \/ CallRampupScore
  \/ CallDatasetAndCodeScore
  \/ CallDatasetQualityScore
  \/ CallCodeQualityScore
  \/ CallPerfClaimsScore
  \/ CallComputeAllScores

SpecMetrics == MetInit /\ [][MetNext]_vars

(***************************************************************************)
(* The documentation enhancer.  A readme text is held as what the local    *)
(* heuristic looks at: its length in characters, the keywords that occur   *)
(* in its lower-cased form, and the number of ``` fences.  Scores are in   *)
(* thousandths; the lengths and scores drawn make every product exact.     *)
(***************************************************************************)
\* os.getenv gives None
Unset == "<unset>"

\* value.strip().lower(), on the values drawn
StripLower(v) ==
  CASE v = " Yes " -> "yes"
    [] v = "TRUE" -> "true"
    [] v = "Purdue " -> "purdue"
    [] OTHER -> v

\* (os.getenv(name, "0") or "0").strip().lower() in {"1", "true", "yes", "on"}
EnvFlag(env, name) ==
  LET raw == IF env[name] \in {Unset, ""} THEN "0" ELSE env[name]
  IN StripLower(raw) \in {"1", "true", "yes", "on"}

\* get_llm_provider() is not None
get_llm_provider(env) ==
  LET raw == IF env.LLM_PROVIDER \in {Unset, ""} THEN "purdue" ELSE env.LLM_PROVIDER
  IN /\ StripLower(raw) = "purdue"
     /\ env.PURDUE_GENAI_BASE_URL \notin {Unset, ""}
     /\ env.PURDUE_GENAI_API_KEY \notin {Unset, ""}

\* _analyze_readme_locally(readme_content, model_name)
analyze_readme_locally(readme) ==
  IF readme.length = 0
  THEN [documentation_quality |-> 0, ease_of_use |-> 0, examples_present |-> FALSE,
        installation_instructions |-> FALSE, usage_examples |-> FALSE]
  ELSE LET has_installation == readme.words \cap {"install", "pip", "conda", "setup"} # {}
           has_usage ==
             readme.words \cap {"usage", "example", "how to", "getting started"} # {}
           has_api_docs ==
             readme.words \cap {"api", "reference", "documentation", "docs"} # {}
           has_examples == readme.words \cap {"example", "sample", "demo", "tutorial"} # {}
           quality_score == (IF has_installation THEN One \div 4 ELSE 0)
                            + (IF has_usage THEN One \div 4 ELSE 0)
                            + (IF has_api_docs THEN One \div 4 ELSE 0)
                            + (IF readme.fences >= 2 THEN One \div 4 ELSE 0)
           ease == readme.length \div 2 + quality_score \div 2
       IN [documentation_quality |-> quality_score,
           ease_of_use |-> IF ease > One THEN One ELSE ease,
           examples_present |-> has_examples,
           installation_instructions |-> has_installation,
           usage_examples |-> has_usage,
           code_blocks_count |-> readme.fences \div 2]

\* d.update(e): the keys of e, with e's values, added to or replacing d's
Update(d, e) ==
  [k \in DOMAIN d \cup DOMAIN e |-> IF k \in DOMAIN e THEN e[k] ELSE d[k]]

\* What PurdueGenAIProvider.analyze_readme does: it returns the three values
\* parsed from the response, or raises on a transport exception, a status
\* other than 200, or a response it cannot parse
ProviderOutcomes ==
  LET high == [documentation_quality |-> 900, ease_of_use |-> 800, examples_present |-> TRUE]
      none == [documentation_quality |-> 0, ease_of_use |-> 0, examples_present |-> FALSE]
  IN { [kind |-> "ok", exc |-> "", result |-> high],
       [kind |-> "ok", exc |-> "", result |-> none],
       [kind |-> "exception", exc |-> "ConnectionError", result |-> none],
       [kind |-> "http_error", exc |-> "RuntimeError", result |-> none],
       [kind |-> "malformed", exc |-> "TypeError", result |-> none] }

\* the number of times the same call is run
MaxRuns == 2

\* The readme texts drawn: empty; 50 characters with no keyword; 100
\* characters naming examples and setup; 1200 characters with every kind of
\* keyword and two fenced code blocks
Readmes ==
  { [length |-> 0, words |-> {}, fences |-> 0],
    [length |-> 50, words |-> {}, fences |-> 0],
    [length |-> 100, words |-> {"example", "setup"}, fences |-> 0],
    [length |-> 1200, words |-> {"install", "usage", "api", "demo"}, fences |-> 4] }

\* The five signals estimate_docs_quality derives from downloads and likes,
\* for no popularity and for the highest
BaseDocs ==
  { [readme |-> 500, quickstart |-> 100, tutorials |-> 50, api_docs |-> 50,
     reproducibility |-> 0],
    [readme |-> 1000, quickstart |-> 700, tutorials |-> 600, api_docs |-> 650,
     reproducibility |-> 500] }

Environments ==
  [ LLM_PROVIDER : {Unset, "Purdue ", "openai"},
    PURDUE_GENAI_BASE_URL : {Unset, "https://genai"},
    PURDUE_GENAI_API_KEY : {"", "key"},
    DETERMINISTIC : {Unset, "0", "1", " Yes "},
    LLM_STRICT : {Unset, "0", "1", "TRUE"} ]

EnhancerCalls ==
  [entry : {"analyze_readme_with_llm"}, readme : Readmes, model_id : {"m"}]
    \cup [entry : {"enhance_ramp_up_time_with_llm"}, readme : Readmes, model_id : {"m"},
          base_score : {600, 1000}]
    \cup [entry : {"estimate_docs_quality"}, readme : Readmes, model_id : {"", "m"},
          base : BaseDocs]

LlmInit ==
  /\ MainIdle
  /\ CtxIdle
  /\ MetIdle
  /\ lenv \in Environments
  /\ lcall \in EnhancerCalls
  /\ lpc = "call"
  /\ lremote = << >>
  /\ lret = [state |-> "pending"]
  /\ lout = [state |-> "pending"]
  /\ lrun = 1
  /\ lprev = << >>

\* The entry function is called.  estimate_docs_quality calls the enhancer
\* only for a non-empty readme and model id, and otherwise returns its base
Enter ==
  /\ lpc = "call"
  /\ IF lcall.entry = "estimate_docs_quality"
        /\ (lcall.readme.length = 0 \/ lcall.model_id = "")
     THEN /\ lout' = [state |-> "returned", docs |-> lcall.base]
          /\ lpc' = "finished"
     ELSE /\ lpc' = "start"
          /\ UNCHANGED lout
  /\ UNCHANGED << mainVars, ctxVars, metVars, lenv, lcall, lremote, lret, lrun, lprev >>

\* analyze_readme_with_llm up to the choice between the provider and the
\* local analysis
AnalyzeBegin ==
  /\ lpc = "start"
  /\ LET provider == get_llm_provider(lenv)
         strict == EnvFlag(lenv, "LLM_STRICT")
         deterministic == EnvFlag(lenv, "DETERMINISTIC")
     IN IF provider /\ ~deterministic
        THEN lpc' = "provider" /\ UNCHANGED lret
        ELSE IF strict
        THEN lpc' = "over" /\ lret' = [state |-> "raised", exc |-> "RuntimeError"]
        ELSE lpc' = "local" /\ UNCHANGED lret
  /\ UNCHANGED << mainVars, ctxVars, metVars, lenv, lcall, lremote, lout, lrun, lprev >>

\* provider.analyze_readme(model_name, readme_content) returns or raises
ProviderCall(outcome) ==
  /\ lpc = "provider"
  /\ lremote' = Append(lremote, outcome)
  /\ IF outcome.kind = "ok"
     THEN lpc' = "merge" /\ UNCHANGED lret
     ELSE IF EnvFlag(lenv, "LLM_STRICT")
     THEN lpc' = "over" /\ lret' = [state |-> "raised", exc |-> outcome.exc]
     ELSE lpc' = "local" /\ UNCHANGED lret
  /\ UNCHANGED << mainVars, ctxVars, metVars, lenv, lcall, lout, lrun, lprev >>

\* result.update(_analyze_readme_locally(...)); return result
Merge ==
  /\ lpc = "merge"
  /\ lret' = [state |-> "returned",
              dict |-> Update(lremote[Len(lremote)].result,
                              analyze_readme_locally(lcall.readme))]
  /\ lpc' = "over"
  /\ UNCHANGED << mainVars, ctxVars, metVars, lenv, lcall, lremote, lout, lrun, lprev >>

\* return _analyze_readme_locally(readme_content, model_name)
Local ==
  /\ lpc = "local"
  /\ lret' = [state |-> "returned", dict |-> analyze_readme_locally(lcall.readme)]
  /\ lpc' = "over"
  /\ UNCHANGED << mainVars, ctxVars, metVars, lenv, lcall, lremote, lout, lrun, lprev >>

\* llm.get(key, default)
DictGet(d, key, default) == IF key \in DOMAIN d THEN d[key] ELSE default

\* enhance_ramp_up_time_with_llm after the analysis: the 70/30 blend, or the
\* base score if the analysis raised
enhance_ramp_up_time_with_llm(base_score, analysis) ==
  IF analysis.state = "raised" THEN base_score
  ELSE LET a == analysis.dict
           \* llm_score and enhanced_score, times 10 and times 100
           llm_score == 4 * a.documentation_quality + 4 * a.ease_of_use
                        + 2 * (IF a.examples_present THEN One ELSE 0)
           enhanced_score == 70 * base_score + 3 * llm_score
       IN IF enhanced_score > 100 * One THEN One ELSE enhanced_score \div 100

\* estimate_docs_quality after the analysis: the readme signal is blended
\* 60/40 with documentation_quality and three others are raised, or the base
\* is returned as it is if the analysis raised
estimate_docs_quality(base, analysis) ==
  IF analysis.state = "raised" THEN base
  ELSE LET llm == analysis.dict
           bump(x, by) == IF x + by > One THEN One ELSE x + by
       IN [readme |-> (6 * base.readme + 4 * DictGet(llm, "documentation_quality", 0)) \div 10,
           quickstart |-> IF DictGet(llm, "installation_instructions", FALSE)
                          THEN bump(base.quickstart, 100) ELSE base.quickstart,
           tutorials |-> IF DictGet(llm, "usage_examples", FALSE)
                         THEN bump(base.tutorials, 150) ELSE base.tutorials,
           api_docs |-> IF DictGet(llm, "code_blocks_count", 0) >= 2
                        THEN bump(base.api_docs, 100) ELSE base.api_docs,
           reproducibility |-> base.reproducibility]

\* analyze_readme_with_llm is over: the entry function finishes
Leave ==
  /\ lpc = "over"
  /\ lout' = CASE lcall.entry = "analyze_readme_with_llm" -> lret
                [] lcall.entry = "enhance_ramp_up_time_with_llm" ->
                     [state |-> "returned",
                      score |-> enhance_ramp_up_time_with_llm(lcall.base_score, lret)]
                [] lcall.entry = "estimate_docs_quality" ->
                     [state |-> "returned", docs |-> estimate_docs_quality(lcall.base, lret)]
  /\ lpc' = "finished"
  /\ UNCHANGED << mainVars, ctxVars, metVars, lenv, lcall, lremote, lret, lrun, lprev >>

\* the same call is made again, in the same environment
Rerun ==
  /\ lpc = "finished"
  /\ lrun < MaxRuns
  /\ lprev' = Append(lprev, lout)
  /\ lrun' = lrun + 1
  /\ lpc' = "call"
  /\ lret' = [state |-> "pending"]
  /\ lout' = [state |-> "pending"]
  /\ UNCHANGED << mainVars, ctxVars, metVars, lenv, lcall, lremote >>

LlmNext ==
  \/ Enter
  \/ AnalyzeBegin
  \/ \E outcome \in ProviderOutcomes : ProviderCall(outcome)
  \/ Merge
  \/ Local
  \/ Leave
  \/ Rerun

SpecLlm == LlmInit /\ [][LlmNext]_vars

(***************************************************************************)
(* Vocabulary of the properties                                            *)
(***************************************************************************)
InputOk == args.url_file = "ok" /\ urls # <<>>

ModelPos == { p \in DOMAIN urls : CategoryOf[urls[p]] = "MODEL" }

NonModelPos == { p \in DOMAIN urls : CategoryOf[urls[p]] # "MODEL" }

\* MODEL identifiers whose evaluation raises, and those raising the typed lookup error
FailingPos == { p \in ModelPos : RaisedBy[urls[p]] # "none" }

LookupFailingPos == { p \in ModelPos : RaisedBy[urls[p]] = "ModelLookupError" }

RecordLines == { i \in DOMAIN stdout : stdout[i].kind = "record" }

RecordsFor(p) == Cardinality({ i \in RecordLines : stdout[i].url = p })

FailuresFor(p) == Cardinality({ i \in DOMAIN failures : failures[i].url = p })

StderrItemsFor(p) ==
  Cardinality({ i \in DOMAIN stderr : stderr[i].kind = "item" /\ stderr[i].url = p })

SummaryFor(p) == Cardinality({ i \in DOMAIN results : results[i].url = p })

Dispatched == pc \in {"submit", "collect", "shutdown", "sequential", "final"}

(***************************************************************************)
(* C1.  Partial-failure accounting without --fail-fast.                    *)
(***************************************************************************)
\* The premise of C1: a batch without --fail-fast in which the models that fail
\* fail by lookup
C1_Case == InputOk /\ ~args.fail_fast /\ FailingPos = LookupFailingPos

C1_Counts ==
  /\ pc = "final" =>
       Len(invalid) + Len(failures) = Cardinality(NonModelPos) + Cardinality(FailingPos)
  /\ pc = "exit" =>
       /\ Cardinality(RecordLines)
            = Len(urls) - Cardinality(NonModelPos) - Cardinality(FailingPos)
       /\ Len(failures) = Cardinality(FailingPos)

\* C1 as stated: with N identifiers, M not MODEL and K failing lookup, a batch
\* without --fail-fast ends with N-M-K records emitted, M+K failures recorded,
\* and a non-zero exit status whenever M+K > 0.
C1_AsStated ==
  C1_Case =>
    /\ C1_Counts
    /\ pc = "exit" /\ Cardinality(NonModelPos) + Cardinality(FailingPos) > 0
         => exitCode # 0

\* C1 (amended): the same counts hold, and the exit status is non-zero exactly
\* when K > 0 or no identifier is a MODEL; it is 0 when every MODEL identifier
\* evaluated successfully, whatever the number of DATASET/CODE identifiers.
C1_PartialFailureAccounting ==
  C1_Case =>
    /\ C1_Counts
    /\ pc = "exit" =>
         (exitCode # 0 <=> (FailingPos # {} \/ ModelPos = {}))

\* a finished batch with a success, a lookup failure and a non-MODEL identifier
C1_Witness ==
  /\ pc = "exit" /\ C1_Case
  /\ NonModelPos # {} /\ FailingPos # {} /\ ModelPos \ FailingPos # {}
  /\ Cardinality(RecordLines) = 1 /\ Len(failures) = 1 /\ exitCode = 1

(***************************************************************************)
(* C2.  Exit status of main().                                             *)
(***************************************************************************)
AllEvaluatedOk == FailingPos = {} /\ \A p \in ModelPos : RecordsFor(p) = 1

\* C2 as stated: exit code 0 only if every input identifier was classified as
\* MODEL and evaluated successfully.
C2_AsStated ==
  pc = "exit" /\ exitCode = 0 => NonModelPos = {} /\ AllEvaluatedOk

\* C2 (amended): exit code 0 exactly when the input holds at least one MODEL
\* identifier and every MODEL identifier was evaluated successfully; DATASET
\* and CODE identifiers beside a MODEL do not change the exit code.
C2_ExitStatus ==
  pc = "exit" => (exitCode = 0 <=> (ModelPos # {} /\ AllEvaluatedOk))

\* exit 0 although a DATASET or CODE identifier was in the input
C2_Witness == pc = "exit" /\ exitCode = 0 /\ NonModelPos # {} /\ Len(failures) = 0

(***************************************************************************)
(* C3.  Mixed input: DATASET/CODE identifiers are filtered, not errors.    *)
(***************************************************************************)
HasCategory(c) == \E p \in DOMAIN urls : CategoryOf[urls[p]] = c

\* C3: for an input mixing MODEL with DATASET and CODE identifiers in which
\* every MODEL evaluates successfully, main() exits 0 and the result stream
\* holds exactly one record per MODEL identifier and none for the others.
C3_MixedInputFiltered ==
  pc = "exit" /\ InputOk /\ ModelPos # {} /\ NonModelPos # {} /\ FailingPos = {}
    => /\ exitCode = 0
       /\ \A p \in ModelPos : RecordsFor(p) = 1
       /\ \A p \in NonModelPos : RecordsFor(p) = 0
       /\ Cardinality(RecordLines) = Cardinality(ModelPos)

\* the input of test_main_prints_ndjson_for_models: a model, a dataset, a repo
C3_Witness ==
  /\ pc = "exit" /\ exitCode = 0
  /\ Cardinality(ModelPos) = 1 /\ HasCategory("DATASET") /\ HasCategory("CODE")
  /\ Cardinality(RecordLines) = 1

(***************************************************************************)
(* C4.  Fail-fast stops new context-builder calls.                         *)
(***************************************************************************)
\* C4 as stated: in a run with --fail-fast, once a lookup or processing failure
\* has occurred, no process_model call (hence no context-builder call) begins.
C4_AsStated == [][args.fail_fast /\ failedYet => calls' = calls]_vars

(***************************************************************************)
(* C5.  Fail-fast keeps completed work.                                    *)
(***************************************************************************)
\* C5 as stated: in a run with --fail-fast, every model whose evaluation had
\* completed successfully when the first failure triggered cancellation has
\* its record on the result stream (and in the summary list with --summary).
C5_AsStated ==
  pc = "exit" /\ args.fail_fast =>
    \A k \in doneAtBreak :
      /\ RecordsFor(models[k]) >= 1
      /\ args.summary => SummaryFor(models[k]) >= 1

(***************************************************************************)
(* C6.  No torn outcome.                                                   *)
(***************************************************************************)
CompleteRecord(rec) ==
  /\ rec.fields = ScoreFields
  /\ rec.category = "MODEL"
  /\ rec.name # <<>>

\* C6: at every moment of every run, each dispatched identifier has at most
\* one outcome, a record on the result stream or a recorded failure, never
\* both, and every record on the stream has all its fields.
C6_NoTornOutcome ==
  /\ \A p \in DOMAIN urls : RecordsFor(p) + FailuresFor(p) <= 1
  /\ \A i \in RecordLines : CompleteRecord(stdout[i].rec)
  /\ \A i \in DOMAIN results : CompleteRecord(results[i].rec)

\* a fail-fast run through the sequential fallback that emitted a record and
\* then recorded a failure
C6_Witness ==
  /\ pc = "exit" /\ args.fail_fast /\ fallback
  /\ Cardinality(RecordLines) >= 1 /\ Len(failures) = 1

(***************************************************************************)
(* C7.  Each failure is reported once on the diagnostic channel.           *)
(***************************************************************************)
\* the stderr line of an identifier carries that identifier's reason
ReasonGiven(line) ==
  IF line.url \in NonModelPos
  THEN line.why = [msg |-> "unsupported category", detail |-> CategoryOf[urls[line.url]]]
  ELSE \E j \in DOMAIN failures : failures[j] = [url |-> line.url, why |-> line.why]

C8_ClassificationGatesDispatch ==
  /\ \A p \in NonModelPos :
       /\ calls[p] = 0
       /\ \A k \in DOMAIN models : models[k] # p
       /\ pc = "classified" \/ Dispatched => \E i \in DOMAIN invalid : invalid[i].url = p
  /\ Len(fut) <= Cardinality(ModelPos)

\* a finished batch in which a model was evaluated beside a non-MODEL identifier
C8_Witness ==
  /\ pc = "exit" /\ NonModelPos # {}
  /\ \E p \in ModelPos : calls[p] > 0

(***************************************************************************)
(* C9.  Failure taxonomy.                                                  *)
(***************************************************************************)
\* upstream answered the metadata request, with a non-200 status or with a
\* payload that is not a JSON object (which the code reports as status 500)
UpstreamRefused(p) ==
  /\ extract_model_id(urls[p].url).ok
  /\ urls[p].resp.net
  /\ urls[p].resp.status # 200 \/ ~urls[p].resp.dict

\* C9: a recorded model failure has kind "lookup" exactly when the context
\* builder raised ModelLookupError (upstream refused the lookup), and kind
\* "processing" for any other exception; no exception leaves main().
C9_FailureTaxonomy ==
  /\ \A i \in DOMAIN failures :
       LET p == failures[i].url
           raised == RaisedBy[urls[p]]
       IN /\ raised # "none"
          /\ failures[i].why.msg = "model lookup failed" <=> raised = "ModelLookupError"
          /\ failures[i].why.msg = "processing error" <=> raised # "ModelLookupError"
          /\ raised = "ModelLookupError" <=> UpstreamRefused(p)
  /\ \A i \in DOMAIN errFile :
       errFile[i].kind # "classify" =>
         /\ errFile[i].kind \in {"lookup", "processing"}
         /\ errFile[i].kind = "lookup" <=> UpstreamRefused(errFile[i].url)
  /\ pc # "crashed"

\* a finished batch that recorded a lookup failure (HTTP 404) and a processing
\* failure (a network error) in the failure list and in the error file
C9_Witness ==
  /\ pc = "exit"
  /\ \E i \in DOMAIN errFile :
       errFile[i].kind = "lookup" /\ urls[errFile[i].url].resp.status = 404
  /\ \E i \in DOMAIN errFile :
       errFile[i].kind = "processing" /\ errFile[i].error.detail = "RuntimeError"
  /\ Len(failures) = 2

(***************************************************************************)
(* C10.  Nothing to evaluate.                                              *)
(***************************************************************************)
NothingToEvaluate == args.url_file # "ok" \/ urls = <<>> \/ ModelPos = {}

\* C10: when the URL file is missing, unreadable, empty or holds only
\* non-MODEL identifiers, main() exits 1 without dispatching a worker or
\* calling the context builder, and the result stream stays empty.
C10_NothingToEvaluate ==
  NothingToEvaluate =>
    /\ pc \in {"start", "classified", "exit"}
    /\ pc = "exit" => exitCode = 1
    /\ stdout = <<>>
    /\ fut = <<>> /\ nthreads = 0
    /\ \A p \in DOMAIN urls : calls[p] = 0

\* main() has exited on an input of DATASET/CODE identifiers only
C10_Witness == pc = "exit" /\ exitCode = 1 /\ urls # <<>> /\ ModelPos = {}

(***************************************************************************)
(* C11.  The lines of the error file.                                      *)
(***************************************************************************)
ErrLinesFor(p, kinds) ==
  Cardinality({ i \in DOMAIN errFile : errFile[i].url = p /\ errFile[i].kind \in kinds })

\* the lines of the error file written for model failures, in order
ModelErrLines == SelectSeq(errFile, LAMBDA l : l.kind # "classify")

OwnLat(w) ==
  [ info |-> elapsed_ms(wresp[w].ms),
    files |-> IF wresp[w].files = "net_error" THEN 1 ELSE elapsed_ms(wresp[w].ms),
    readme |-> IF wresp[w].readme = "net_error" THEN 1 ELSE elapsed_ms(wresp[w].ms) ]

\* C12 as stated: whatever the interleaving of the threads, the network
\* latencies in the context a thread has built are those of its own responses.
C12_AsStated == \A w \in Threads : wpc[w] = "done" => wlat[w] = OwnLat(w)

(***************************************************************************)
(* C13.  Streaming emission on the pool path.                              *)
(***************************************************************************)
FutOf(p) == CHOOSE k \in DOMAIN models : models[k] = p

IndexIn(seq, x) == CHOOSE i \in DOMAIN seq : seq[i] = x

\* future a finished before future b
DoneBefore(a, b) == IndexIn(doneSeq, a) < IndexIn(doneSeq, b)

\* C13 as stated: on the pool path the records are on the result stream in the
\* order in which the evaluations completed.
C13_AsStated ==
  pc = "collect" =>
    \A i, j \in RecordLines :
      i < j => DoneBefore(FutOf(stdout[i].url), FutOf(stdout[j].url))

\* C13 (amended): on the pool path every outcome the collector has been handed
\* is on the stream or in the failure list at once, nothing is held back; the
\* collector can take a finished future whatever else is still running; the
\* futures already done when as_completed began are emitted first, in no
\* particular order, and the others after them in completion order.
C13_StreamingEmission ==
  /\ ~fallback => nYielded = Cardinality(RecordLines) + Len(failures)
  /\ pc = "collect" =>
       /\ acInit \subseteq acStart
       /\ \A i \in DOMAIN waiterQ : waiterQ[i] \notin acStart
       /\ acInit # {} \/ waiterQ # <<>> => ENABLED (\E k \in DOMAIN fut : Collect(k))
       /\ \A i, j \in RecordLines :
            LET a == FutOf(stdout[i].url)
                b == FutOf(stdout[j].url)
            IN i < j /\ b \in acStart => a \in acStart
       /\ \A i, j \in RecordLines :
            LET a == FutOf(stdout[i].url)
                b == FutOf(stdout[j].url)
            IN i < j /\ a \notin acStart => DoneBefore(a, b)
       /\ \A i \in RecordLines : \A q \in DOMAIN waiterQ :
            DoneBefore(FutOf(stdout[i].url), waiterQ[q])

\* the record of the second model of the input is on the stream while the
\* first model of the input is still being evaluated
C13_Witness ==
  /\ pc = "collect" /\ Len(models) >= 2
  /\ fut[1] = "running"
  /\ \E i \in RecordLines : stdout[i].url = models[2]

(***************************************************************************)
(* C14.  The range of the eight metric functions.                          *)
(***************************************************************************)
MetricFunctions ==
  {"size_score", "license_score", "rampup_score", "bus_factor_score",
   "dataset_and_code_score", "dataset_quality_score", "code_quality_score",
   "perf_claims_score"}

\* the call drawn is one of a metric function and is over
MetricCallDone == mcall.fn \in MetricFunctions /\ mret.state # "pending"

C15_AsStated == mret.state # "pending" => mret.state = "returned"

(***************************************************************************)
(* C16.  The net score is a convex combination of the sub-scores.          *)
(***************************************************************************)
\* compute_all_scores has returned
Aggregated == mcall.fn = "compute_all_scores" /\ mret.state = "returned"

SubScores == { mret.scores[MetricKeys[i]] : i \in 1..8 }

LeastSubScore == CHOOSE x \in SubScores : \A y \in SubScores : x <= y

GreatestSubScore == CHOOSE x \in SubScores : \A y \in SubScores : x >= y

\* C16: the net score compute_all_scores returns is the sum of the eight
\* sub-scores weighted 0.05, 0.20, 0.15, 0.10, 0.20, 0.05, 0.15 and 0.10, weights
\* that sum to 1.0, and so lies between the least and the greatest sub-score.
\* (Scores are in thousandths and weights in hundredths, the net score in
\* 1/100000.)
C16_ConvexCombination ==
  Aggregated =>
    /\ mret.net_score =
         5 * mret.scores.size + 20 * mret.scores.license
         + 15 * mret.scores.ramp_up_time + 10 * mret.scores.bus_factor
         + 20 * mret.scores.dataset_and_code + 5 * mret.scores.dataset_quality
         + 15 * mret.scores.code_quality + 10 * mret.scores.performance_claims
    /\ 5 + 20 + 15 + 10 + 20 + 5 + 15 + 10 = 100
    /\ 100 * LeastSubScore <= mret.net_score
    /\ mret.net_score <= 100 * GreatestSubScore

\* compute_all_scores has returned a net score strictly between a least
\* sub-score of 0.0 and a greatest of 1.0
C16_Witness ==
  /\ Aggregated
  /\ LeastSubScore = 0 /\ GreatestSubScore = One
  /\ 0 < mret.net_score /\ mret.net_score < 100 * One

(***************************************************************************)
(* C17.  The end-to-end scenario.                                          *)
(***************************************************************************)
\* the context of the scenario: 50 MB, "MIT", every signal 1.0, ten
\* contributors, dataset and code present, no lint or type errors, imports
\* sorted, benchmarks and citations present, no upstream latencies
IsScenario(ctx) ==
  /\ ctx.total_bytes = PyInt(50)
  /\ ctx.license_text = PyStr(<<"M", "I", "T">>)
  /\ ctx.docs = PyDict([k \in DocKeys |-> PyFloat(One)])
  /\ ctx.contributors = PyInt(10)
  /\ ctx.dataset_present = PyBool(TRUE) /\ ctx.code_present = PyBool(TRUE)
  /\ ctx.dataset_doc = PyDict([k \in DatasetDocKeys |-> PyFloat(One)])
  /\ ctx.flake8_errors = PyInt(0) /\ ctx.mypy_errors = PyInt(0)
  /\ ctx.isort_sorted = PyBool(TRUE)
  /\ ctx.perf = PyDict([k \in PerfKeys |-> PyBool(TRUE)])
  /\ ctx.latencies = Missing

\* C17 (as stated): on the scenario's context every one of the eight sub-scores
\* is 1.0 and compute_all_scores returns a net score of 1.0.
C17_AsStated ==
  mcall.fn = "compute_all_scores" /\ IsScenario(mcall.ctx) /\ mret.state # "pending" =>
    /\ mret.state = "returned"
    /\ \A i \in 1..8 : mret.scores[MetricKeys[i]] = One
    /\ mret.net_score = 100 * One

(***************************************************************************)
(* C18.  The headline size metric as a linear ramp between L and U.        *)
(***************************************************************************)
\* the value v of keyword name in the call's keywords
Keyword(kw, name) == CHOOSE v \in {100, 400} : <<name, v>> \in kw

\* 1.0 up to L, 0.0 from U on, linear in between; 0.0 when U <= L
LinearRamp(b, L, U) ==
  IF U <= L THEN 0
  ELSE IF b <= L THEN One
  ELSE IF b >= U THEN 0
  ELSE (One * (U - b)) \div (U - L)

\* C18 (as stated): size_score called with total_bytes, a lower bound L and an
\* upper bound U returns the linear ramp between L and U, and 0.0 without
\* raising when U <= L, as for total_bytes=10, L=100, U=100.
C18_AsStated ==
  mcall.fn = "size_score" /\ mcall.kw # {} /\ mcall.a[1].t = "int"
  /\ mret.state # "pending" =>
    /\ mret.state = "returned"
    /\ mret.score = LinearRamp(mcall.a[1].n, Keyword(mcall.kw, "L"), Keyword(mcall.kw, "U"))

(***************************************************************************)
(* C19.  The license score.                                                *)
(***************************************************************************)
\* license_score was called with the text cs and is over
LicenseCallDone(cs) ==
  mcall.fn = "license_score" /\ mcall.a[1] = PyStr(cs) /\ mret.state # "pending"

\* the text names GPL, in any case, and not LGPL
NamesGPLOnly(cs) ==
  /\ Contains(lower(cs), <<"g", "p", "l">>)
  /\ ~Contains(lower(cs), <<"l", "g", "p", "l">>)

\* C19 (as stated): license_score gives 1.0 for "Apache-2.0", "MIT" and
\* "LGPL-2.1", 0.0 for "GPL-3.0", 0.5 for an empty or unmatched text, and 0.0
\* for every text that names GPL and not LGPL.
C19_AsStated ==
  \A cs \in LicenseTexts :
    LicenseCallDone(cs) =>
      /\ mret.state = "returned"
      /\ cs \in { <<"A", "p", "a", "c", "h", "e", "-", "2", ".", "0">>, <<"M", "I", "T">>,
                  <<"L", "G", "P", "L", "-", "2", ".", "1">> } => mret.score = One
      /\ cs = <<"G", "P", "L", "-", "3", ".", "0">> => mret.score = 0
      /\ cs \in { <<>>, <<"B", "S", "D">> } => 2 * mret.score = One
      /\ NamesGPLOnly(cs) => mret.score = 0

(***************************************************************************)
(* C20.  Monotonicity over the integer arguments drawn.                    *)
(***************************************************************************)
\* the scores of the functions on integer arguments
BusFactor(n) == bus_factor_score(PyInt(n), 0).score

SizeOf(n) == size_score(PyInt(n), 0).score

CodeQuality(f, sorted, m) == code_quality_score(PyInt(f), sorted, PyInt(m), 0).score

\* C20: bus_factor_score does not decrease as contributors grow, with
\* bus_factor(1) < bus_factor(5) < bus_factor(20) and non-positive counts scored
\* as 0 contributors; size_score does not increase as total_bytes grows;
\* code_quality_score does not increase as flake8_errors or mypy_errors grow, and
\* the all-bad input scores strictly below the all-good one.
C20_Monotonicity ==
  /\ mcall.fn = "bus_factor_score" /\ mcall.a[1].t = "int" /\ mret.state # "pending" =>
       LET n == mcall.a[1].n
       IN /\ mret.state = "returned"
          /\ \A n2 \in n..MaxContributors : mret.score <= BusFactor(n2)
          /\ n <= 0 => mret.score = BusFactor(0)
          /\ n = 1 => mret.score < BusFactor(5)
          /\ n = 5 => mret.score < BusFactor(20)
  /\ mcall.fn = "size_score" /\ WellTyped(mcall) /\ mret.state # "pending" =>
       /\ mret.state = "returned"
       /\ \A v \in SizeArgs : v.t = "int" /\ v.n >= mcall.a[1].n => SizeOf(v.n) <= mret.score
  /\ mcall.fn = "code_quality_score" /\ mcall.a[1].t = "int" /\ mcall.a[3].t = "int"
     /\ mret.state # "pending" =>
       /\ mret.state = "returned"
       /\ \A f \in mcall.a[1].n..MaxErrors : \A m \in mcall.a[3].n..MaxErrors :
            CodeQuality(f, mcall.a[2], m) <= mret.score
       /\ mcall.a[1].n = 0 /\ mcall.a[3].n = 0 /\ mcall.a[2] = PyBool(TRUE) =>
            CodeQuality(MaxErrors, PyBool(FALSE), MaxErrors) < mret.score

\* bus_factor_score has returned 0.5 for five contributors, more than for one
\* and less than for twenty
C20_Witness ==
  /\ mcall.fn = "bus_factor_score" /\ mcall.a[1] = PyInt(5) /\ mret.state = "returned"
  /\ 2 * mret.score = One
  /\ BusFactor(1) < mret.score /\ mret.score < BusFactor(20)

(***************************************************************************)
(* C21.  Where the latencies of the output come from.                      *)
(***************************************************************************)
\* what the context supplies under the i-th latency key, Missing if nothing
SuppliedLatency(ctx, i) ==
  IF ctx.latencies.t = "dict" THEN ctx.latencies.v[LatencyKeys[i]] ELSE Missing

\* C21: when compute_all_scores returns, each of the eight latencies of the
\* output is the value the context supplies for it (whole milliseconds, at
\* least 1) if it supplies one, and otherwise the locally measured timing; each
\* is an integer of at least 1; and net_score_latency is the greatest of the
\* eight plus an overhead of at least 1, the time of the whole call.
C21_LatencyPrecedence ==
  Aggregated =>
    /\ \A i \in 1..8 :
         LET v == SuppliedLatency(mcall.ctx, i)
             whole == IF v.t = "float" THEN v.n \div One ELSE v.n
         IN /\ mret.latencies[i] \in Int /\ mret.latencies[i] >= 1
            /\ v.t \in {"int", "float"} =>
                 mret.latencies[i] = IF whole < 1 THEN 1 ELSE whole
            /\ v.t = "missing" => mret.latencies[i] = IF mcall.ms < 1 THEN 1 ELSE mcall.ms
    /\ \E i \in 1..8 :
         /\ \A j \in 1..8 : mret.latencies[j] <= mret.latencies[i]
         /\ LET overhead == IF mcall.elapsed < 1 THEN 1 ELSE mcall.elapsed
            IN mret.net_score_latency = mret.latencies[i] + overhead

\* compute_all_scores has returned for a context that supplies 40 ms for the
\* license latency only: that field is 40, the size latency is the local 1,
\* and net_score_latency is 40 plus the 3 ms of the call
C21_Witness ==
  /\ Aggregated
  /\ SuppliedLatency(mcall.ctx, 2) = PyInt(40)
  /\ mcall.elapsed = 3
  /\ mret.latencies[2] = 40 /\ mret.latencies[1] = 1
  /\ mret.net_score_latency = 43

(***************************************************************************)
(* C22, C23, C28, C30.  The documentation enhancer analyze_readme_with_llm.*)
(***************************************************************************)
\* a run of analyze_readme_with_llm, called directly, is over
AnalyzeDone == lcall.entry = "analyze_readme_with_llm" /\ lpc = "finished"

\* the outcomes of the provider calls of the current run (one call at most)
RemoteOfRun == IF Len(lremote) >= lrun THEN <<lremote[Len(lremote)]>> ELSE << >>

\* C22 (as stated): whatever the environment and whatever the provider does,
\* analyze_readme_with_llm returns a dict holding documentation_quality,
\* ease_of_use and examples_present, and never raises.
C22_AsStated ==
  AnalyzeDone =>
    /\ lout.state = "returned"
    /\ {"documentation_quality", "ease_of_use", "examples_present"} \subseteq DOMAIN lout.dict

\* C23 (as stated): when every call of the remote provider fails, two runs on
\* the same text and model id give the same result, which is the local
\* heuristic analysis of the text.
C23_AsStated ==
  /\ AnalyzeDone /\ lrun = 2
  /\ Len(lremote) = 2 /\ \A i \in 1..2 : lremote[i].kind # "ok"
  => /\ lout = lprev[1]
     /\ lout.state = "returned"
     /\ lout.dict = analyze_readme_locally(lcall.readme)

\* C28 (as stated): when DETERMINISTIC is truthy, analyze_readme_with_llm
\* makes no call of the provider, configured or not, and returns the local
\* heuristic analysis of the text.
C28_AsStated ==
  EnvFlag(lenv, "DETERMINISTIC") =>
    /\ lremote = << >>
    /\ AnalyzeDone =>
         /\ lout.state = "returned"
         /\ lout.dict = analyze_readme_locally(lcall.readme)

\* C30 (as stated): when the provider call succeeds, the result carries the
\* provider's documentation_quality, ease_of_use and examples_present, and the
\* local analysis's installation_instructions, usage_examples and
\* code_blocks_count.
C30_AsStated ==
  /\ AnalyzeDone /\ lcall.readme.length > 0
  /\ RemoteOfRun # << >> /\ RemoteOfRun[1].kind = "ok"
  => LET remote == RemoteOfRun[1].result
         local == analyze_readme_locally(lcall.readme)
     IN /\ lout.state = "returned"
        /\ \A k \in {"documentation_quality", "ease_of_use", "examples_present"} :
             lout.dict[k] = remote[k]
        /\ \A k \in {"installation_instructions", "usage_examples", "code_blocks_count"} :
             lout.dict[k] = local[k]

(***************************************************************************)
(* C24.  The readme signal that feeds ramp_up.                             *)
(***************************************************************************)

\* The pipeline's readme signal is the one estimate_docs_quality returns
DocsDone == lcall.entry = "estimate_docs_quality" /\ lpc = "finished"

\* C24 as the claim states it: when the remote call of this run succeeded, the
\* readme signal estimate_docs_quality returns is 70% of the base signal plus
\* 30% of the composite of the enhancer's result, capped at 1.0; when the
\* remote call failed, it is the base signal unchanged.
C24_AsStated ==
  (DocsDone /\ RemoteOfRun # << >>) =>
    IF RemoteOfRun[1].kind = "ok"
    THEN lout.docs.readme = enhance_ramp_up_time_with_llm(lcall.base.readme, lret)
    ELSE lout.docs.readme = lcall.base.readme

(***************************************************************************)
(* C25.  The schema of an emitted record.                                  *)
(***************************************************************************)

ScoresDone == mcall.fn = "compute_all_scores" /\ mret.state = "returned"

\* the fields of a record that hold a scalar score of one metric
ScalarMetricFields(rec) ==
  { k \in DOMAIN rec :
      /\ k \notin {"name", "category", "net_score", "net_score_latency", "size_score"}
      /\ \A i \in 1..8 : k # LatencyKeys[i] }

\* C25 as the claim states it: the record process_model builds from any
\* context that compute_all_scores accepts has name, category, net_score and
\* net_score_latency, a latency field for each of the eight metrics,
\* size_score as a map over exactly the four devices with values in [0,1],
\* every scalar score in [0,1], and a scalar score field for each of the eight
\* metrics, the headline size metric among them, next to the device map.
C25_AsStated ==
  ScoresDone =>
    LET rec == ScoreRecord("m", result(mret))
    IN /\ {"name", "category", "net_score", "net_score_latency", "size_score"}
            \subseteq DOMAIN rec
       /\ \A i \in 1..8 : LatencyKeys[i] \in DOMAIN rec
       /\ DOMAIN rec["size_score"]
            = {"raspberry_pi", "jetson_nano", "desktop_pc", "aws_server"}
       /\ \A device \in DOMAIN rec["size_score"] : rec["size_score"][device] \in 0..One
       /\ rec["net_score"] \in 0..(100 * One)
       /\ \A k \in ScalarMetricFields(rec) : rec[k] \in 0..One
       /\ Cardinality(ScalarMetricFields(rec)) = 8

(***************************************************************************)
(* C26, C27.  The fallback to the sequential loop.                         *)
(***************************************************************************)

\* C26 as the claim states it: in a batch run, each occurrence of a MODEL
\* identifier is evaluated at most once and has at most one outcome on
\* record, an emitted ScoreRecord or a recorded failure, also when a failing
\* submit or a failing error-file write sends main() to the sequential loop.
C26_AsStated ==
  \A p \in ModelPos :
    /\ calls[p] <= 1
    /\ RecordsFor(p) + FailuresFor(p) <= 1

\* C27 as the claim states it: in a run with --fail-fast the failure list
\* and the error file hold at most one lookup/processing entry.
C27_AsStated ==
  args.fail_fast =>
    /\ Len(failures) <= 1
    /\ Len(ModelErrLines) <= 1

(***************************************************************************)
(* C29.  Batch termination.                                                *)
(***************************************************************************)

\* main() has ended: it raised SystemExit, or an exception left it
Ended == pc \in {"exit", "crashed"}

\* Every work item a pool thread can still take has been taken and is over:
\* no future is running, and one still queued belongs to a pool that has no
\* thread (its submit raised) or was cancelled
AllResolved ==
  /\ Running = {}
  /\ \A k \in DOMAIN fut :
       \/ fut[k] \in {"finished", "cancelled", "new"}
       \/ fut[k] = "pending" /\ nthreads = 0

\* C29: every run of main() ends, with exit status 0 or 1, with or without
\* --fail-fast; and whenever the exit status is produced no worker is running
\* and every dispatched evaluation has finished or been cancelled.
C29_BatchTermination ==
  /\ <>(Ended /\ exitCode \in {0, 1})
  /\ [](exitCode # -1 => Ended /\ exitCode \in {0, 1} /\ AllResolved)

\* A --fail-fast run that ended after cancelling a queued evaluation, and in
\* which another evaluation had been started by a worker
C29_Witness ==
  /\ Ended /\ exitCode = 1 /\ args.fail_fast
  /\ \E k \in DOMAIN fut : fut[k] = "cancelled"
  /\ \E k \in DOMAIN fut : fut[k] = "finished"

====
